---- MODULE Spec2Model ----
(***************************************************************************)
(* Model of pax's PatternFitter (src/pax/PatternFitter.py): a pattern map  *)
(* over uniformly binned spatial axes, the bin lookup, the normalised      *)
(* expected pattern, the goodness-of-fit statistics and the grid / Powell  *)
(* minimisations.                                                          *)
(*                                                                         *)
(* Numbers are exact rationals <<num, den>> in lowest terms with den > 0.  *)
(* The two non-finite floats the code can produce are kept apart from the  *)
(* finite ones: NaN is <<0, 0>> and +infinity is <<1, 0>>.  Floating-point *)
(* rounding is not modelled.                                               *)
(***************************************************************************)
EXTENDS Integers, Sequences, FiniteSets, TLC

VARIABLES
    json_data,              \* the template file read by the constructor
    zoom_factor,            \* the constructor's zoom_factor
    coordinate_data,        \* self.coordinate_data: one CoordinateData per spatial axis
    data,                   \* self.data: bin index tuple -> per-channel expected response
    n_points,               \* self.n_points: number of channels
    default_pmt_selection,  \* self.default_pmt_selection
    default_errors,         \* self.default_errors
    areas_observed,         \* the caller's observed-amplitude array
    pmt_selection,          \* the caller's mask array, or None
    square_syst_errors,     \* the caller's systematic-error array, or None
    pc,                     \* the caller's position: "idle" | "returned" | "modified"
    call,                   \* the call last made: operation and scalar arguments
    result,                 \* what that call produced: a value or a raised error
    config,                 \* processor: the evaluated [pax] section of the configuration
    args_n,                 \* processor: args.n as <<n>>, None when -n is not given
    input_events,           \* processor: what input.get_events() yields, in order
    actions,                \* processor: the action chain
    event_i,                \* processor: i, the index of the event at hand
    event,                  \* processor: the event at hand
    action_j,               \* processor: j, the index of the action at hand
    processed,              \* processor: the events that left the action chain, in order
    loop,                   \* processor: "off" | "fetch" | "chain" | "finished"
    rwm_config,             \* posrec: the plugin's configuration and what startup keeps of it
    peaks,                  \* posrec: the peaks of the event given to transform_event
    peak_at,                \* posrec: position in the event of the peak at hand
    area_per_channel,       \* posrec: the upweighted copy of the peak's area_per_channel
    pmts,                   \* posrec: the PMTs still in the working set, ascending
    wmp,                    \* posrec: the weighted mean position last computed
    distances,              \* posrec: the distances of the PMTs from wmp last computed
    n_removed,              \* posrec: <<n>>, the PMTs the last pass removed; None before it
    posrec_pc,              \* posrec: "off" | "startup" | "ready" | "for" | "while" |
                            \*         "outliers" | "append" | "returned" | "raised"
    chunk,                  \* xed: the channels of the event's chunk, each with its data
    channel_at,             \* xed: position in the chunk of the channel being read
    words_read,             \* xed: 4-byte words read from channel_fake_file so far
    sample_position,        \* xed: sample_position
    pulses,                 \* xed: event.pulses
    xed_pc,                 \* xed: "off" | "channels" | "words" | "returned"
    fax_config,             \* fax: self.config of the simulator plugin
    instructions,           \* fax: the instructions of the event being simulated
    instruction_at,         \* fax: position of q in instructions
    hitpatterns,            \* fax: hitpatterns
    truth_peaks,            \* fax: self.truth_peaks
    simulated,              \* fax: what simulate_single_event handed back, or its error
    fax_pc                  \* fax: "off" | "s1" | "s2" | "event" | "returned" | "raised"

vars == <<json_data, zoom_factor,
          coordinate_data, data, n_points, default_pmt_selection, default_errors,
          areas_observed, pmt_selection, square_syst_errors, pc, call, result,
          config, args_n, input_events, actions, event_i, event, action_j, processed, loop,
          rwm_config, peaks, peak_at, area_per_channel, pmts, wmp, distances, n_removed,
          posrec_pc,
          chunk, channel_at, words_read, sample_position, pulses, xed_pc,
          fax_config, instructions, instruction_at, hitpatterns, truth_peaks,
          simulated, fax_pc>>

posrec_vars == <<rwm_config, peaks, peak_at, area_per_channel, pmts, wmp, distances, n_removed,
                 posrec_pc>>

xed_vars == <<chunk, channel_at, words_read, sample_position, pulses, xed_pc>>

fax_vars ==
    <<fax_config, instructions, instruction_at, hitpatterns, truth_peaks, simulated, fax_pc>>

plugin_vars == <<posrec_vars, xed_vars, fax_vars>>

processor_vars == <<config, args_n, input_events, actions, event_i, event, action_j, processed, loop>>

constructor_args == <<json_data, zoom_factor>>

engine == <<coordinate_data, data, n_points, default_pmt_selection, default_errors>>

caller_arrays == <<areas_observed, pmt_selection, square_syst_errors>>

fitter_vars == <<constructor_args, engine, caller_arrays, pc, call, result>>

----------------------------------------------------------------------------
(* Bounds of the model *)

MaxBins == 2        \* n_bins of a template axis ranges over 1..MaxBins
NumChannels == 2    \* channels of the map
MaxArea == 2        \* observed amplitudes range over 0..MaxArea
MaxGrid == 2        \* grid_size ranges over 0..MaxGrid
MaxTrials == 2      \* trial coordinates of the minimizer after the start
MaxZoom == 2        \* zoom_factor ranges over 1..MaxZoom
MaxN == 2           \* -n ranges over 0..MaxN
MaxEvents == 2      \* the input yields at most MaxEvents events
MaxPmts == 3        \* PMTs of the top array
MaxWords == 4       \* 4-byte words of one channel's data in an XED chunk
MaxInstructions == 2    \* instructions of one simulated event

----------------------------------------------------------------------------
(* Exact arithmetic standing for Python floats *)

Abs(n) == IF n < 0 THEN 0 - n ELSE n

RECURSIVE Gcd(_, _)
Gcd(a, b) == IF b = 0 THEN a ELSE Gcd(b, a % b)

NaN == <<0, 0>>
Inf == <<1, 0>>

IsNaN(x) == x = NaN
IsFinite(x) == x[2] # 0

\* the rational n/d in lowest terms; x/0 follows IEEE: 0/0 = nan, positive/0 = inf
Frac(n, d) ==
    IF d = 0 THEN (IF n = 0 THEN NaN ELSE Inf)
    ELSE LET g == Gcd(Abs(n), Abs(d))
             s == IF d < 0 THEN 0 - 1 ELSE 1
         IN <<(s * n) \div g, (s * d) \div g>>

R(n) == <<n, 1>>

RAdd(x, y) ==
    IF IsNaN(x) \/ IsNaN(y) THEN NaN
    ELSE IF ~IsFinite(x) \/ ~IsFinite(y) THEN Inf
    ELSE Frac(x[1] * y[2] + y[1] * x[2], x[2] * y[2])

RNeg(x) == <<0 - x[1], x[2]>>

RSub(x, y) == RAdd(x, RNeg(y))

RMul(x, y) ==
    IF IsNaN(x) \/ IsNaN(y) THEN NaN
    ELSE IF ~IsFinite(x) \/ ~IsFinite(y) THEN Inf
    ELSE Frac(x[1] * y[1], x[2] * y[2])

RDiv(x, y) ==
    IF IsNaN(x) \/ IsNaN(y) THEN NaN
    ELSE IF ~IsFinite(x) \/ ~IsFinite(y) THEN NaN
    ELSE Frac(x[1] * y[2], x[2] * y[1])

\* x <= y on finite rationals
RLeq(x, y) == x[1] * y[2] <= y[1] * x[2]

RLess(x, y) == x[1] * y[2] < y[1] * x[2]

RMax(x, y) == IF RLeq(x, y) THEN y ELSE x

RMin(x, y) == IF RLeq(x, y) THEN x ELSE y

\* Python's int() of a finite float: truncation towards zero
IntTrunc(x) ==
    IF x[1] >= 0 THEN x[1] \div x[2] ELSE 0 - ((0 - x[1]) \div x[2])

RECURSIVE SumSeq(_)
SumSeq(s) == IF s = <<>> THEN 0 ELSE s[1] + SumSeq(Tail(s))

RECURSIVE RSumSeq(_)
RSumSeq(s) == IF s = <<>> THEN R(0) ELSE RAdd(s[1], RSumSeq(Tail(s)))

----------------------------------------------------------------------------
(* Python values *)

None == <<>>

OutOfRange == "CoordinateOutOfRangeException"

Ok(v) == [kind |-> "ok", value |-> v, at |-> "return"]

\* an exception: its class, and the statement that raised it
Raise(k, at) == [kind |-> k, value |-> None, at |-> at]

Raised(r) == Raise(r.kind, r.at)

----------------------------------------------------------------------------
(* PatternFitter.__init__: the attributes built from a template.           *)
(* Axes are numbered from 1 here (dimension_i + 1); bin indices stay       *)
(* zero-based as in the code.                                              *)

CoordinateData(start, stop, n_bins) ==
    [minimum |-> start, maximum |-> stop, n_bins |-> n_bins,
     bin_spacing |-> RDiv(RSub(stop, start), R(n_bins))]

Dimensions == Len(coordinate_data)

Dims == 1..Dimensions

Channels == 1..n_points

\* extent of a map along spatial axis d
ShapeOf(map, d) == Cardinality({b[d] : b \in DOMAIN map})

\* self.data.shape[d]
DataShape(d) == ShapeOf(data, d)

\* n_bins left as the template has it
ZoomedNBinsUnscaled(n_bins, z) == n_bins

\* n_bins *= zoom_factor
ZoomedNBins(n_bins, z) == n_bins * z

\* Linear interpolation of channel c of the map at the input position pos,
\* the indices of the axes before d being fixed already
RECURSIVE ZoomAt(_, _, _, _, _)
ZoomAt(map, pos, fixed, d, c) ==
    IF d > Len(pos) THEN map[fixed][c]
    ELSE LET lo == IntTrunc(pos[d])
             fr == RSub(pos[d], R(lo))
         IN IF fr = R(0)
            THEN ZoomAt(map, pos, Append(fixed, lo), d + 1, c)
            ELSE RAdd(RMul(RSub(R(1), fr),
                           ZoomAt(map, pos, Append(fixed, lo), d + 1, c)),
                      RMul(fr, ZoomAt(map, pos, Append(fixed, lo + 1), d + 1, c)))

\* image_zoom(self.data, zoom=[zoom_factor] * dimensions + [1], order=1) as
\* scipy computes it: an axis of n bins gets round(n * zoom_factor) bins,
\* output bin o reads the input at o * (n - 1) / (n_out - 1), and the
\* channel axis (zoom 1) is read bin for bin
ImageZoom(map, z) ==
    LET dims == DOMAIN (CHOOSE b \in DOMAIN map : TRUE)
        n_in == [d \in dims |-> ShapeOf(map, d)]
        n_out == [d \in dims |-> n_in[d] * z]
        bins == {o \in [dims -> 0..(SumSeq(n_out) - 1)] : \A d \in dims : o[d] < n_out[d]}
        pos(o) == [d \in dims |-> IF n_out[d] = 1 THEN R(0)
                                  ELSE Frac(o[d] * (n_in[d] - 1), n_out[d] - 1)]
        channels == DOMAIN map[CHOOSE b \in DOMAIN map : TRUE]
    IN [o \in bins |-> [c \in channels |-> ZoomAt(map, pos(o), <<>>, 1, c)]]

----------------------------------------------------------------------------
(* Bin lookup *)

\* _get_bin_index with the upper edge left out of the range test
GetBinIndexHalfOpen(value, d) ==
    LET cd == coordinate_data[d]
    IN IF ~(RLeq(cd.minimum, value) /\ RLess(value, cd.maximum))
       THEN Raise(OutOfRange, "_get_bin_index")
       ELSE Ok(IntTrunc(RDiv(RSub(value, cd.minimum), cd.bin_spacing)))

\* _get_bin_index(value, dimension_i)
GetBinIndex(value, d) ==
    LET cd == coordinate_data[d]
    IN IF ~(RLeq(cd.minimum, value) /\ RLeq(value, cd.maximum))
       THEN Raise(OutOfRange, "_get_bin_index")
       ELSE Ok(IntTrunc(RDiv(RSub(value, cd.minimum), cd.bin_spacing)))

\* _get_bin_center giving the upper edge of the bin
GetBinCenterUpperEdge(bin_i, d) ==
    LET cd == coordinate_data[d]
    IN RAdd(cd.minimum, RMul(cd.bin_spacing, RAdd(R(bin_i), R(1))))

\* _get_bin_center(bin_i, dimension_i)
GetBinCenter(bin_i, d) ==
    LET cd == coordinate_data[d]
    IN RAdd(cd.minimum, RMul(cd.bin_spacing, RAdd(R(bin_i), Frac(1, 2))))

\* get_bin_indices testing the range of the first axis only
GetBinIndicesFirstAxisTested(coordinates) ==
    IF GetBinIndex(coordinates[1], 1).kind # "ok"
    THEN Raise(OutOfRange, "_get_bin_index")
    ELSE Ok([d \in Dims |->
               IntTrunc(RDiv(RSub(coordinates[d], coordinate_data[d].minimum),
                             coordinate_data[d].bin_spacing))])

\* get_bin_indices(coordinates): the list comprehension raises at the first
\* axis whose value is out of range
GetBinIndices(coordinates) ==
    IF \E d \in Dims : GetBinIndex(coordinates[d], d).kind # "ok"
    THEN Raise(OutOfRange, "_get_bin_index")
    ELSE Ok([d \in Dims |-> GetBinIndex(coordinates[d], d).value])

----------------------------------------------------------------------------
(* expected_pattern *)

\* expected_pattern handing back the slice of the map itself
PatternBaseView == "data"

\* The memory behind the array expected_pattern hands back.  The indexing
\* self.data[indices + [slice(None)]] is a view on the map ("data"); .copy()
\* and the division each allocate, so the array returned is the caller's own.
PatternBase == "own"

\* expected_pattern without the test for an all-zero pattern: 0/0 per channel
ExpectedPatternNoZeroTest(coordinates) ==
    LET bi == GetBinIndices(coordinates)
    IN IF bi.kind # "ok" THEN Raised(bi)
       ELSE IF bi.value \notin DOMAIN data THEN Raise("IndexError", "self.data[]")
       ELSE LET pattern == data[bi.value]
                sum_pattern == RSumSeq(pattern)
            IN Ok([base |-> PatternBase, bin |-> bi.value,
                   array |-> [c \in Channels |-> RDiv(pattern[c], sum_pattern)]])

\* expected_pattern(coordinates)
ExpectedPattern(coordinates) ==
    LET bi == GetBinIndices(coordinates)
    IN IF bi.kind # "ok" THEN Raised(bi)
       ELSE IF bi.value \notin DOMAIN data THEN Raise("IndexError", "self.data[]")
       ELSE LET pattern == data[bi.value]
                sum_pattern == RSumSeq(pattern)
            IN IF sum_pattern = R(0)
               THEN Raise(OutOfRange, "expected_pattern")
               ELSE Ok([base |-> PatternBase, bin |-> bi.value,
                        array |-> [c \in Channels |-> RDiv(pattern[c], sum_pattern)]])

----------------------------------------------------------------------------
(* _compute_gof_base *)

Statistics == {"chi2gamma", "chi2", "likelihood"}

\* pmt_selection after the default is filled in
Selection(sel) == IF sel = None THEN default_pmt_selection ELSE sel

\* the default errors landing one channel further on
SystErrorsShifted(ao, sse) ==
    IF sse = None
    THEN [c \in Channels |->
            LET n == (c % n_points) + 1
            IN RMul(RMul(default_errors, R(ao[n])), RMul(default_errors, R(ao[n])))]
    ELSE sse

\* square_syst_errors after the default is filled in (over all channels,
\* before the mask is applied)
SystErrors(ao, sse) ==
    IF sse = None
    THEN [c \in Channels |-> RMul(RMul(default_errors, R(ao[c])),
                                  RMul(default_errors, R(ao[c])))]
    ELSE sse

\* x[mask]: the entries of x at the selected channels, in channel order
RECURSIVE Masked(_, _)
Masked(x, mask) ==
    IF x = <<>> THEN <<>>
    ELSE IF Head(mask) THEN <<Head(x)>> \o Masked(Tail(x), Tail(mask))
    ELSE Masked(Tail(x), Tail(mask))

\* where(ao > 1, ao, 1): the larger of the amplitude and 1
WhereAbove1Swapped(ao) == IF ao > 1 THEN ao ELSE 1

\* where(ao > 1, 1, ao)
WhereAbove1(ao) == IF ao > 1 THEN 1 ELSE ao

\* one channel's term of the chi2gamma expression
Chi2GammaTerm(ao, ae, sse) ==
    LET resid == RSub(RAdd(R(ao), R(WhereAbove1(ao))), ae)
    IN RDiv(RMul(resid, resid), RAdd(RAdd(ae, sse), R(1)))

\* the statistic with total_observed summed before the mask is applied
GofOfPatternTotalOfAll(pattern, ao_all, sel_in, sse_in) ==
    LET sel == Selection(sel_in)
        sse == Masked(SystErrors(ao_all, sse_in), sel)
        ao == Masked(ao_all, sel)
        q == Masked(pattern, sel)
        qsum == RSumSeq(q)
        total_observed == SumSeq(ao_all)
        term(i) == Chi2GammaTerm(ao[i],
                                 RMul(RDiv(q[i], qsum), R(total_observed)),
                                 sse[i])
    IN RSumSeq([i \in 1..Len(ao) |-> term(i)])

\* the statistic for the map's response at one bin, over the channels
\* selected
GofOfPattern(pattern, ao_all, sel_in, sse_in) ==
    LET sel == Selection(sel_in)
        sse == Masked(SystErrors(ao_all, sse_in), sel)
        ao == Masked(ao_all, sel)
        q == Masked(pattern, sel)
        qsum == RSumSeq(q)
        total_observed == SumSeq(ao)
        term(i) == Chi2GammaTerm(ao[i],
                                 RMul(RDiv(q[i], qsum), R(total_observed)),
                                 sse[i])
    IN RSumSeq([i \in 1..Len(ao) |-> term(i)])

\* the statistic at one bin of the map, a bin without expected response in
\* the channels selected counting as a perfect fit
GofOfBinDeadAsZero(bin, ao_all, sel_in, sse_in) ==
    IF RSumSeq(Masked(data[bin], Selection(sel_in))) = R(0) THEN R(0)
    ELSE GofOfPattern(data[bin], ao_all, sel_in, sse_in)

\* the statistic at one bin of the map
GofOfBin(bin, ao_all, sel_in, sse_in) ==
    GofOfPattern(data[bin], ao_all, sel_in, sse_in)

\* the statistic branch of _compute_gof_base, reached once the map has been
\* sliced: "ok", or the error the branch raises.  The chi2 expression string
\* has an unclosed parenthesis, which numexpr rejects when it compiles it.
StatisticOutcome(statistic) ==
    IF statistic = "chi2gamma" THEN Ok(None)
    ELSE IF statistic = "chi2" THEN Raise("SyntaxError", "ne.evaluate")
    ELSE Raise("ValueError", "statistic")

----------------------------------------------------------------------------
(* compute_gof, compute_gof_grid, minimize_gof_grid *)

\* compute_gof as its docstring has it: float('inf') outside the range
ComputeGofInfOutside(coordinates, ao, sel, sse, statistic) ==
    LET bi == GetBinIndices(coordinates)
    IN IF bi.kind # "ok" THEN Ok(Inf)
       ELSE IF bi.value \notin DOMAIN data THEN Raise("IndexError", "self.data[]")
       ELSE IF StatisticOutcome(statistic).kind # "ok" THEN StatisticOutcome(statistic)
       ELSE Ok(GofOfBin(bi.value, ao, sel, sse))

\* compute_gof(coordinates, areas_observed, pmt_selection, square_syst_errors,
\* statistic): bin_selection is the list of bin indices
ComputeGof(coordinates, ao, sel, sse, statistic) ==
    LET bi == GetBinIndices(coordinates)
    IN IF bi.kind # "ok" THEN Raised(bi)
       ELSE IF bi.value \notin DOMAIN data THEN Raise("IndexError", "self.data[]")
       ELSE IF StatisticOutcome(statistic).kind # "ok" THEN StatisticOutcome(statistic)
       ELSE Ok(GofOfBin(bi.value, ao, sel, sse))

\* start and stop of compute_gof_grid along axis d (the centre is in range)
GridStart(x, grid_size, d) ==
    GetBinIndex(RMax(RSub(x, RDiv(grid_size, R(2))), coordinate_data[d].minimum), d)

\* the upper end of the window looked up without clamping it to the axis
GridStopUnclamped(x, grid_size, d) ==
    GetBinIndex(RAdd(x, RDiv(grid_size, R(2))), d)

GridStop(x, grid_size, d) ==
    GetBinIndex(RMin(RAdd(x, RDiv(grid_size, R(2))), coordinate_data[d].maximum), d)

\* the indices slice(start, stop + 1) selects on an axis of the given length
SliceIndices(start, stop, length) ==
    {i \in start..stop : i < length}

\* compute_gof_grid(center_coordinates, grid_size, ...) with plot=False:
\* gofs maps each offset from lowest_bins to the statistic of that bin
ComputeGofGrid(center, grid_size, ao, sel, sse, statistic) ==
    IF \E d \in Dims : ~(RLeq(coordinate_data[d].minimum, center[d])
                        /\ RLeq(center[d], coordinate_data[d].maximum))
    THEN Raise(OutOfRange, "compute_gof_grid")
    ELSE IF \E d \in Dims : \/ GridStart(center[d], grid_size, d).kind # "ok"
                            \/ GridStop(center[d], grid_size, d).kind # "ok"
    THEN Raise(OutOfRange, "_get_bin_index")
    ELSE LET start == [d \in Dims |-> GridStart(center[d], grid_size, d).value]
             stop == [d \in Dims |-> GridStop(center[d], grid_size, d).value]
             shape == [d \in Dims |->
                         Cardinality(SliceIndices(start[d], stop[d], DataShape(d)))]
             offsets == {k \in [Dims -> 0..SumSeq(shape)] : \A d \in Dims : k[d] < shape[d]}
             bin(k) == [d \in Dims |-> start[d] + k[d]]
         IN IF StatisticOutcome(statistic).kind # "ok"
            THEN StatisticOutcome(statistic)
            ELSE Ok([gofs |-> [k \in offsets |-> GofOfBin(bin(k), ao, sel, sse)],
                     shape |-> shape,
                     lowest_bins |-> start])

\* k comes no later than j in the row-major (C order) scan of the grid
RECURSIVE RowMajorLeq(_, _)
RowMajorLeq(k, j) ==
    IF k = <<>> THEN TRUE
    ELSE IF Head(k) # Head(j) THEN Head(k) < Head(j)
    ELSE RowMajorLeq(Tail(k), Tail(j))

\* k comes no later than j in the column-major (Fortran order) scan
ColumnMajorLeq(k, j) ==
    \/ k = j
    \/ \E d \in DOMAIN k : /\ k[d] < j[d]
                           /\ \A e \in DOMAIN k : e > d => k[e] = j[e]

\* nanargmin scanning the grid in column-major order
NanArgMinColumnMajor(gofs) ==
    LET cand == {k \in DOMAIN gofs : ~IsNaN(gofs[k])}
    IN IF cand = {} THEN None
       ELSE CHOOSE k \in cand : \A j \in cand :
                \/ RLess(gofs[k], gofs[j])
                \/ gofs[k] = gofs[j] /\ ColumnMajorLeq(k, j)

\* np.unravel_index(np.nanargmin(gofs), gofs.shape): the first smallest
\* entry that is not NaN; None when there is none (nanargmin raises)
NanArgMin(gofs) ==
    LET cand == {k \in DOMAIN gofs : ~IsNaN(gofs[k])}
    IN IF cand = {} THEN None
       ELSE CHOOSE k \in cand : \A j \in cand :
                \/ RLess(gofs[k], gofs[j])
                \/ gofs[k] = gofs[j] /\ RowMajorLeq(k, j)

\* minimize_gof_grid taking the offsets in the grid for bin numbers
MinimizeGofGridFromBinZero(center, grid_size, ao, sel, sse, statistic) ==
    LET grid == ComputeGofGrid(center, grid_size, ao, sel, sse, statistic)
    IN IF grid.kind # "ok" THEN grid
       ELSE LET min_index == NanArgMin(grid.value.gofs)
            IN IF min_index = None THEN Raise("ValueError", "np.nanargmin")
               ELSE Ok([coordinates |-> [d \in Dims |-> GetBinCenter(min_index[d], d)],
                        gof |-> grid.value.gofs[min_index]])

\* minimize_gof_grid(center_coordinates, grid_size, ...) with plot=False
MinimizeGofGrid(center, grid_size, ao, sel, sse, statistic) ==
    LET grid == ComputeGofGrid(center, grid_size, ao, sel, sse, statistic)
    IN IF grid.kind # "ok" THEN grid
       ELSE LET min_index == NanArgMin(grid.value.gofs)
            IN IF min_index = None THEN Raise("ValueError", "np.nanargmin")
               ELSE Ok([coordinates |->
                          [d \in Dims |->
                             GetBinCenter(grid.value.lowest_bins[d] + min_index[d], d)],
                        gof |-> grid.value.gofs[min_index]])

----------------------------------------------------------------------------
(* minimize_gof_powell.  scipy's fmin_powell is outside the repository: it  *)
(* is taken to evaluate the objective at the start and at further trial    *)
(* coordinates of its own choosing, and to hand back the best coordinates  *)
(* it saw with their function value, either as a plain scalar or as an     *)
(* array.                                                                  *)

\* the sign with a start coordinate of exactly 0 counted as negative
DirecSignZeroIsNegative(x) == IF RLeq(x, R(0)) THEN 1 ELSE 0 - 1

\* s = lambda d: 1 if d < 0 else -1
DirecSign(x) == IF RLess(x, R(0)) THEN 1 ELSE 0 - 1

\* direc, the initial direction matrix handed to the minimizer
Direc(start_coordinates) ==
    IF Dimensions = 2
    THEN <<<<DirecSign(start_coordinates[1]), 0>>,
           <<0, DirecSign(start_coordinates[2])>>>>
    ELSE None

\* safe_compute_gof with the try/except taken away
SafeComputeGofUncaught(coordinates, ao, sel, sse, statistic) ==
    ComputeGof(coordinates, ao, sel, sse, statistic)

\* safe_compute_gof
SafeComputeGof(coordinates, ao, sel, sse, statistic) ==
    LET r == ComputeGof(coordinates, ao, sel, sse, statistic)
    IN IF r.kind = OutOfRange THEN Ok(Inf) ELSE r

\* the better of two evaluated coordinates (nan never compares smaller)
BetterOf(x1, f1, x2, f2) ==
    IF IsNaN(f2) \/ IsNaN(f1) THEN [x |-> x1, f |-> f1]
    ELSE IF ~IsFinite(f2) THEN [x |-> x1, f |-> f1]
    ELSE IF ~IsFinite(f1) THEN [x |-> x2, f |-> f2]
    ELSE IF RLess(f2, f1) THEN [x |-> x2, f |-> f2]
    ELSE [x |-> x1, f |-> f1]

\* the best of the first n coordinates visited, f holding their values
RECURSIVE BestOf(_, _, _)
BestOf(visited, f, n) ==
    IF n = 1 THEN [x |-> visited[1], f |-> f[1].value]
    ELSE LET b == BestOf(visited, f, n - 1)
         IN BetterOf(b.x, b.f, visited[n], f[n].value)

\* fmin_powell(safe_compute_gof, start_coordinates, ...): the minimizer
\* evaluates the objective at the start and then at `trials` in turn; an
\* error the objective raises ends the search and passes through.  It hands
\* back xopt, fopt and whether fopt is an array.
FminPowell(start_coordinates, trials, fopt_is_array, ao, sel, sse, statistic) ==
    LET visited == <<start_coordinates>> \o trials
        f == [i \in 1..Len(visited) |-> SafeComputeGof(visited[i], ao, sel, sse, statistic)]
        failed == {i \in 1..Len(visited) : f[i].kind # "ok"}
    IN IF failed # {}
       THEN Raised(f[CHOOSE i \in failed : \A j \in failed : i <= j])
       ELSE LET best == BestOf(visited, f, Len(visited))
            IN Ok([xopt |-> best.x, fopt |-> best.f, fopt_is_array |-> fopt_is_array])

\* minimize_gof_powell returning fopt as the minimizer gave it
MinimizeGofPowellKeepsFopt(start_coordinates, trials, fopt_is_array, ao, sel, sse, statistic) ==
    LET rv == FminPowell(start_coordinates, trials, fopt_is_array, ao, sel, sse, statistic)
    IN IF rv.kind # "ok" THEN rv
       ELSE Ok([coordinates |-> rv.value.xopt,
                gof |-> rv.value.fopt,
                direc |-> Direc(start_coordinates)])

\* minimize_gof_powell(start_coordinates, ...)
MinimizeGofPowell(start_coordinates, trials, fopt_is_array, ao, sel, sse, statistic) ==
    LET rv == FminPowell(start_coordinates, trials, fopt_is_array, ao, sel, sse, statistic)
    IN IF rv.kind # "ok" THEN rv
       ELSE Ok([coordinates |-> rv.value.xopt,
                gof |-> IF rv.value.fopt_is_array THEN NaN ELSE rv.value.fopt,
                direc |-> Direc(start_coordinates)])

----------------------------------------------------------------------------
(* The templates, arrays and arguments the model ranges over *)

\* n_bins per axis of the templates: one axis, or two with few cells
TemplateShapes ==
    {<<n>> : n \in 1..MaxBins}
    \cup {s \in (1..MaxBins) \X (1..MaxBins) : s[1] * s[2] <= MaxBins}

\* every axis of a template spans [-1, 1]
TemplateAxis(n) == [start |-> R(0 - 1), stop |-> R(1), n_bins |-> n]

BinsOf(shape) ==
    {b \in [1..Len(shape) -> 0..(MaxBins - 1)] : \A d \in 1..Len(shape) : b[d] < shape[d]}

\* the per-channel responses a template may hold at one bin: a dead bin, a
\* flat response, a response peaked at the first channel, a response of the
\* first channel alone
Patterns ==
    {[c \in 1..NumChannels |-> R(0)],
     [c \in 1..NumChannels |-> R(1)],
     [c \in 1..NumChannels |-> IF c = 1 THEN R(3) ELSE R(1)],
     [c \in 1..NumChannels |-> IF c = 1 THEN R(1) ELSE R(0)]}

\* coordinates tried on an axis: every bin edge and bin centre of the
\* templates, and one value beyond each end
Values ==
    UNION {{Frac(j - n, n) : j \in 0..(2 * n)} : n \in 1..MaxBins}
    \cup {Frac(0 - 3, 2), Frac(3, 2)}

GridSizes == {R(g) : g \in 0..MaxGrid}

AreaArrays == [1..NumChannels -> 0..MaxArea]

MaskArrays == {None} \cup [1..NumChannels -> BOOLEAN]

ErrorArrays == {None} \cup {[c \in 1..NumChannels |-> R(e)] : e \in 0..1}

DefaultErrors == {R(0), Frac(1, 2)}

NoCall == [op |-> "none"]

\* no processor is running
NoProcessor ==
    /\ config = None
    /\ args_n = None
    /\ input_events = <<>>
    /\ actions = <<>>
    /\ event_i = 0
    /\ event = None
    /\ action_j = 0
    /\ processed = <<>>
    /\ loop = "off"

\* no position reconstruction plugin is running
NoPosRec ==
    /\ rwm_config = None
    /\ peaks = <<>>
    /\ peak_at = 0
    /\ area_per_channel = <<>>
    /\ pmts = <<>>
    /\ wmp = None
    /\ distances = <<>>
    /\ n_removed = None
    /\ posrec_pc = "off"

\* no XED file is being read
NoXed ==
    /\ chunk = <<>>
    /\ channel_at = 0
    /\ words_read = 0
    /\ sample_position = 0
    /\ pulses = <<>>
    /\ xed_pc = "off"

\* no event is being simulated
NoFax ==
    /\ fax_config = None
    /\ instructions = <<>>
    /\ instruction_at = 0
    /\ hitpatterns = <<>>
    /\ truth_peaks = <<>>
    /\ simulated = None
    /\ fax_pc = "off"

NoPlugins ==
    /\ NoPosRec
    /\ NoXed
    /\ NoFax

\* the template files with the given n_bins per axis, every bin holding
\* one of the patterns
TemplateFiles(shape, patterns) ==
    {[coordinate_system |-> [d \in 1..Len(shape) |-> TemplateAxis(shape[d])],
      map |-> m] : m \in [BinsOf(shape) -> patterns]}

\* __init__(filename, zoom_factor) with adjust_to_qe=None
Constructed(json, z) ==
    /\ json_data = json
    /\ zoom_factor = z
    /\ data = IF z # 1 THEN ImageZoom(json.map, z) ELSE json.map
    /\ coordinate_data =
          [d \in DOMAIN json.coordinate_system |->
             LET axis == json.coordinate_system[d]
             IN CoordinateData(axis.start, axis.stop, ZoomedNBins(axis.n_bins, z))]
    /\ n_points = Len(data[CHOOSE b \in DOMAIN data : TRUE])
    /\ default_pmt_selection = [c \in 1..n_points |-> TRUE]
    /\ pc = "idle"
    /\ call = NoCall
    /\ result = None

\* calls with the default mask and errors
PlainArrays ==
    /\ default_errors = R(0)
    /\ areas_observed \in {[c \in 1..NumChannels |-> 1],
                           [c \in 1..NumChannels |-> IF c = 1 THEN MaxArea ELSE 0]}
    /\ pmt_selection = None
    /\ square_syst_errors = None
    /\ NoProcessor
    /\ NoPlugins

\* any template, not zoomed; calls with the default mask and errors
Init ==
    /\ \E shape \in TemplateShapes :
          \E json \in TemplateFiles(shape, Patterns) : Constructed(json, 1)
    /\ PlainArrays

\* a template of one bin; calls with any amplitudes, mask and errors
InitGof ==
    /\ \E json \in TemplateFiles(<<1>>, Patterns) : Constructed(json, 1)
    /\ default_errors \in DefaultErrors
    /\ areas_observed \in AreaArrays
    /\ pmt_selection \in MaskArrays
    /\ square_syst_errors \in ErrorArrays
    /\ square_syst_errors # None => default_errors = R(0)
    /\ NoProcessor
    /\ NoPlugins

\* a template of one bin; calls with a few amplitudes and any mask and
\* errors
InitMask ==
    /\ \E json \in TemplateFiles(<<1>>, Patterns) : Constructed(json, 1)
    /\ default_errors \in DefaultErrors
    /\ areas_observed \in {[c \in 1..NumChannels |-> 1],
                           [c \in 1..NumChannels |-> IF c = 1 THEN MaxArea ELSE 0]}
    /\ pmt_selection \in MaskArrays
    /\ square_syst_errors \in ErrorArrays
    /\ square_syst_errors # None => default_errors = R(0)
    /\ NoProcessor
    /\ NoPlugins

\* any template, zoomed by any factor
InitZoom ==
    /\ \E shape \in TemplateShapes, z \in 1..MaxZoom :
          \E json \in TemplateFiles(shape, Patterns) : Constructed(json, z)
    /\ PlainArrays

----------------------------------------------------------------------------
(* The calls a user of the fitter makes *)

\* coordinate vectors tried: along each axis through the origin, and those
\* with one component beyond the upper end and every other one at that end
Coordinates ==
    {c \in [Dims -> Values] : Cardinality({d \in Dims : c[d] # R(0)}) <= 1}
    \cup {c \in [Dims -> {R(1), Frac(3, 2)}] :
             Cardinality({d \in Dims : c[d] = Frac(3, 2)}) = 1}

Called(op, args, res) ==
    /\ pc' = "returned"
    /\ call' = [op |-> op] @@ args
    /\ result' = res
    /\ UNCHANGED <<constructor_args, engine, caller_arrays, processor_vars, plugin_vars>>

CallGetBinIndex ==
    /\ pc = "idle"
    /\ \E value \in Values, d \in Dims :
        Called("_get_bin_index", [value |-> value, dimension_i |-> d],
               GetBinIndex(value, d))

CallGetBinCenter ==
    /\ pc = "idle"
    /\ \E d \in Dims : \E bin_i \in 0..(coordinate_data[d].n_bins - 1) :
        Called("_get_bin_center", [bin_i |-> bin_i, dimension_i |-> d],
               Ok(GetBinCenter(bin_i, d)))

CallExpectedPattern ==
    /\ pc = "idle"
    /\ \E coordinates \in Coordinates :
        Called("expected_pattern", [coordinates |-> coordinates],
               ExpectedPattern(coordinates))

CallComputeGof ==
    /\ pc = "idle"
    /\ \E coordinates \in Coordinates, statistic \in Statistics :
        Called("compute_gof",
               [coordinates |-> coordinates, statistic |-> statistic],
               ComputeGof(coordinates, areas_observed, pmt_selection,
                          square_syst_errors, statistic))

CallComputeGofGrid ==
    /\ pc = "idle"
    /\ \E center \in Coordinates, grid_size \in GridSizes, statistic \in Statistics :
        Called("compute_gof_grid",
               [coordinates |-> center, grid_size |-> grid_size, statistic |-> statistic],
               ComputeGofGrid(center, grid_size, areas_observed, pmt_selection,
                              square_syst_errors, statistic))

CallMinimizeGofGrid ==
    /\ pc = "idle"
    /\ \E center \in Coordinates, grid_size \in GridSizes, statistic \in Statistics :
        Called("minimize_gof_grid",
               [coordinates |-> center, grid_size |-> grid_size, statistic |-> statistic],
               MinimizeGofGrid(center, grid_size, areas_observed, pmt_selection,
                               square_syst_errors, statistic))

\* start coordinates tried: the ends of an axis, the origin and a value
\* beyond each end, along each axis through the origin
StartValues == {R(0 - 1), R(0), R(1), Frac(0 - 3, 2), Frac(3, 2)}

Starts ==
    {c \in [Dims -> StartValues] : Cardinality({d \in Dims : c[d] # R(0)}) <= 1}

\* the coordinates the minimizer tries after the start: a march of up to
\* MaxTrials steps of half a unit along one axis, either way
Trials(start) ==
    {[i \in 1..n |-> [start EXCEPT ![d] = RAdd(start[d], RMul(R(i), step))]] :
        n \in 1..MaxTrials, d \in Dims, step \in {Frac(1, 2), Frac(0 - 1, 2)}}

\* minimize_gof_powell called with one of the given start coordinates; the
\* call keeps direc, the matrix it handed to the minimizer
MinimizeGofPowellCalled(starts) ==
    /\ pc = "idle"
    /\ \E start \in starts, statistic \in Statistics, fopt_is_array \in BOOLEAN :
       \E trials \in Trials(start) :
        Called("minimize_gof_powell",
               [coordinates |-> start, trials |-> trials, statistic |-> statistic,
                fopt_is_array |-> fopt_is_array, direc |-> Direc(start)],
               MinimizeGofPowell(start, trials, fopt_is_array, areas_observed,
                                 pmt_selection, square_syst_errors, statistic))

CallMinimizeGofPowell == MinimizeGofPowellCalled(Starts)

\* start coordinates with every combination of signs
StartsAnywhere == [Dims -> StartValues]

CallMinimizeGofPowellAnywhere == MinimizeGofPowellCalled(StartsAnywhere)

\* The caller overwrites an entry of the array expected_pattern returned.
\* The write lands in the memory behind that array: the map's, had the
\* array been a view on it.
CallerWritesPattern ==
    /\ pc = "returned"
    /\ call.op = "expected_pattern"
    /\ result.kind = "ok"
    /\ \E c \in Channels :
          /\ result.value.array[c] # R(0)
          /\ result' = [result EXCEPT !.value.array[c] = R(0)]
          /\ data' = IF result.value.base = "data"
                     THEN [data EXCEPT ![result.value.bin][c] = R(0)]
                     ELSE data
    /\ pc' = "modified"
    /\ UNCHANGED <<constructor_args,
                   coordinate_data, n_points, default_pmt_selection, default_errors,
                   caller_arrays, call, processor_vars, plugin_vars>>

\* the caller is done with the result
CallerContinues ==
    /\ pc \in {"returned", "modified"}
    /\ pc' = "idle"
    /\ call' = NoCall
    /\ result' = None
    /\ UNCHANGED <<constructor_args, engine, caller_arrays, processor_vars, plugin_vars>>

Next ==
    \/ CallGetBinIndex
    \/ CallGetBinCenter
    \/ CallExpectedPattern
    \/ CallComputeGof
    \/ CallComputeGofGrid
    \/ CallMinimizeGofGrid
    \/ CallMinimizeGofPowell
    \/ CallerWritesPattern
    \/ CallerContinues

Spec == Init /\ [][Next]_vars

NextGof ==
    \/ CallComputeGof
    \/ CallComputeGofGrid
    \/ CallerContinues

SpecGof == InitGof /\ [][NextGof]_vars

\* a map of two by two bins, each bin dead, flat or peaked; calls with the
\* default mask and errors
GridTemplate == <<2, 2>>

GridPatterns ==
    {[c \in 1..NumChannels |-> R(0)],
     [c \in 1..NumChannels |-> R(1)],
     [c \in 1..NumChannels |-> IF c = 1 THEN R(3) ELSE R(1)]}

InitGrid ==
    /\ \E json \in TemplateFiles(GridTemplate, GridPatterns) : Constructed(json, 1)
    /\ PlainArrays

NextGrid ==
    \/ CallComputeGofGrid
    \/ CallMinimizeGofGrid
    \/ CallerContinues

SpecGrid == InitGrid /\ [][NextGrid]_vars

SpecMask == InitMask /\ [][NextGof]_vars

\* a map of two bins on one axis, each bin dead, flat, peaked or with a
\* response in the first channel only; calls with any mask
DeadBinTemplate == <<2>>

InitDeadBin ==
    /\ \E json \in TemplateFiles(DeadBinTemplate, Patterns) : Constructed(json, 1)
    /\ default_errors = R(0)
    /\ areas_observed \in {[c \in 1..NumChannels |-> 1],
                           [c \in 1..NumChannels |-> IF c = 1 THEN MaxArea ELSE 0]}
    /\ pmt_selection \in MaskArrays
    /\ square_syst_errors = None
    /\ NoProcessor
    /\ NoPlugins

NextDeadBin ==
    \/ CallExpectedPattern
    \/ CallComputeGof
    \/ CallComputeGofGrid
    \/ CallerContinues

SpecDeadBin == InitDeadBin /\ [][NextDeadBin]_vars

\* maps of one bin per axis with one, two and three axes; calls with the
\* default mask and errors
PowellTemplates == {<<1>>, <<1, 1>>, <<1, 1, 1>>}

InitPowell ==
    /\ \E shape \in PowellTemplates :
          \E json \in TemplateFiles(shape, Patterns) : Constructed(json, 1)
    /\ PlainArrays

NextPowell ==
    \/ CallMinimizeGofPowellAnywhere
    \/ CallerContinues

SpecPowell == InitPowell /\ [][NextPowell]_vars

NextZoom ==
    \/ CallGetBinIndex
    \/ CallGetBinCenter
    \/ CallExpectedPattern
    \/ CallerContinues

SpecZoom == InitZoom /\ [][NextZoom]_vars

----------------------------------------------------------------------------
(* pax.py: the processor's event loop.  Plugins are loaded from outside    *)
(* the repository: an action's process_event is taken to hand back the     *)
(* event it was given, marked with the action's name.                      *)

\* a configuration value: a string, or a list of strings
Str(s) == [str |-> s]

List(l) == [list |-> l]

\* get_actions(config, input, list_of_names): the values of the names, a
\* string standing for a list of one, put end to end
RECURSIVE GetActions(_, _)
GetActions(cfg, list_of_names) ==
    IF list_of_names = <<>> THEN <<>>
    ELSE LET value == cfg[Head(list_of_names)]
         IN (IF "list" \notin DOMAIN value THEN <<value.str>> ELSE value.list)
            \o GetActions(cfg, Tail(list_of_names))

\* "if args.n:": None and 0 are both false
LimitGiven(n) == n # None /\ n[1] # 0

\* block.process_event(event)
ProcessEvent(block, ev) == [ev EXCEPT !.passed = Append(@, block)]

\* the [pax] sections tried: one action per key, and lists of two and none
Configs ==
    {[dsp |-> Str("dsp"), transform |-> Str("transform"),
      my_postprocessing |-> Str("postprocessing"), output |-> Str("output")],
     [dsp |-> List(<<"dsp1", "dsp2">>), transform |-> Str("transform"),
      my_postprocessing |-> List(<<>>), output |-> List(<<"output">>)]}

\* the inputs tried: up to MaxEvents different events in any order
Inputs ==
    {s \in UNION {[1..m -> 1..MaxEvents] : m \in 0..MaxEvents} :
        \A a, b \in DOMAIN s : a # b => s[a] # s[b]}

\* no fitter is in use
NoFitter ==
    /\ json_data = None
    /\ zoom_factor = 1
    /\ coordinate_data = <<>>
    /\ data = <<>>
    /\ n_points = 0
    /\ default_pmt_selection = <<>>
    /\ default_errors = R(0)
    /\ areas_observed = <<>>
    /\ pmt_selection = None
    /\ square_syst_errors = None
    /\ pc = "off"
    /\ call = NoCall
    /\ result = None

\* processor() on reaching the event loop
InitProcessor ==
    /\ NoFitter
    /\ NoPlugins
    /\ config \in Configs
    /\ args_n \in {None} \cup {<<n>> : n \in 0..MaxN}
    /\ input_events \in Inputs
    /\ actions = GetActions(config, <<"dsp", "transform", "my_postprocessing", "output">>)
    /\ event_i = 0
    /\ event = None
    /\ action_j = 0
    /\ processed = <<>>
    /\ loop = "fetch"

\* the input yields its next event and -n does not stop the loop
FetchEvent ==
    /\ loop = "fetch"
    /\ event_i < Len(input_events)
    /\ ~(LimitGiven(args_n) /\ event_i >= args_n[1])
    /\ event' = [id |-> input_events[event_i + 1], passed |-> <<>>]
    /\ action_j' = 0
    /\ loop' = "chain"
    /\ UNCHANGED <<config, args_n, input_events, actions, event_i, processed, fitter_vars, plugin_vars>>

\* "if i >= args.n: break"
StopAfterN ==
    /\ loop = "fetch"
    /\ event_i < Len(input_events)
    /\ LimitGiven(args_n) /\ event_i >= args_n[1]
    /\ loop' = "finished"
    /\ UNCHANGED <<config, args_n, input_events, actions, event_i, event, action_j, processed,
                   fitter_vars, plugin_vars>>

\* the input is exhausted: the loop's else branch
InputExhausted ==
    /\ loop = "fetch"
    /\ event_i >= Len(input_events)
    /\ loop' = "finished"
    /\ UNCHANGED <<config, args_n, input_events, actions, event_i, event, action_j, processed,
                   fitter_vars, plugin_vars>>

\* one pass of the inner loop: event = block.process_event(event)
RunAction ==
    /\ loop = "chain"
    /\ action_j < Len(actions)
    /\ event' = ProcessEvent(actions[action_j + 1], event)
    /\ action_j' = action_j + 1
    /\ UNCHANGED <<config, args_n, input_events, actions, event_i, processed, loop,
                   fitter_vars, plugin_vars>>

\* the inner loop is over: on to the next event
ChainDone ==
    /\ loop = "chain"
    /\ action_j >= Len(actions)
    /\ processed' = Append(processed, event)
    /\ event_i' = event_i + 1
    /\ loop' = "fetch"
    /\ UNCHANGED <<config, args_n, input_events, actions, event, action_j, fitter_vars, plugin_vars>>

NextProcessor ==
    \/ FetchEvent
    \/ StopAfterN
    \/ InputExhausted
    \/ RunAction
    \/ ChainDone

SpecProcessor == InitProcessor /\ [][NextProcessor]_vars

----------------------------------------------------------------------------
(* plugins/posrec/RobustWeightedMean.py: PosRecRobustWeightedMean.  Channels *)
(* are numbered from 0 as in the code.  The PMTs tried lie on one line, so  *)
(* that every Euclidean distance is a rational number.                      *)

\* channels_top; the channel after them belongs to another array
TopChannels == 0..(MaxPmts - 1)

AllChannels == 0..MaxPmts

\* the square root of an integer that is a square
ISqrt(n) == CHOOSE r \in 0..n : r * r = n

\* The arithmetic of the plugin, as functions of numbers: an argument is
\* worked out once, before the function is applied to it.  The actions
\* name an intermediate result the same way, by \E x \in {e}.
Numbers == Seq(Int)

Plus[x \in Numbers, y \in Numbers] == RAdd(x, y)

Minus[x \in Numbers, y \in Numbers] == RSub(x, y)

Times[x \in Numbers, y \in Numbers] == RMul(x, y)

Over[x \in Numbers, y \in Numbers] == RDiv(x, y)

\* x ** 0.5 for a rational that is a square
RSqrt[x \in Numbers] == Frac(ISqrt(x[1]), ISqrt(x[2]))

\* the sum of a sequence of numbers
Total[s \in Seq(Numbers)] == IF s = <<>> THEN R(0) ELSE Plus[s[1], Total[Tail(s)]]

\* the elements of a set of integers as an ascending sequence
Least[S \in SUBSET Int] == CHOOSE x \in S : \A y \in S : x <= y

Ascending[S \in SUBSET Int] ==
    IF S = {} THEN <<>> ELSE <<Least[S]>> \o Ascending[S \ {Least[S]}]

\* np.average(values, weights=weights): raises when the weights sum to zero
Average[values \in Seq(Numbers), weights \in Seq(Numbers)] ==
    IF Total[weights] = R(0) THEN Raise("ZeroDivisionError", "np.average")
    ELSE Ok(Over[Total[[i \in DOMAIN values |-> Times[values[i], weights[i]]]],
                 Total[weights]])

\* area_per_channel[self.outer_ring_pmts] *= self.outer_ring_multiplication_factor
Upweighted(area, cfg) ==
    [ch \in DOMAIN area |->
        IF ch \in cfg.outer_ring_pmts
        THEN RMul(area[ch], cfg.outer_ring_multiplication_factor)
        ELSE area[ch]]

\* np.intersect1d(np.where(area_per_channel > 0)[0], self.pmts)
PmtsWithArea(area, cfg) ==
    Ascending[{ch \in DOMAIN area : RLess(R(0), area[ch])} \cap cfg.pmts]

\* hitpattern = area_per_channel[pmts]
Hitpattern(p, area) == [i \in DOMAIN p |-> area[p[i]]]

\* wmp = np.average(pmt_locs, weights=hitpattern, axis=0)
Wmp(p, area, cfg) ==
    LET wx == Average[[i \in DOMAIN p |-> cfg.pmt_locations[p[i]][1]], Hitpattern(p, area)]
        wy == Average[[i \in DOMAIN p |-> cfg.pmt_locations[p[i]][2]], Hitpattern(p, area)]
    IN IF wx.kind # "ok" THEN wx ELSE Ok(<<wx.value, wy.value>>)

\* (a - b)**2
SquaredDifference[a \in Numbers, b \in Numbers] == Times[Minus[a, b], Minus[a, b]]

\* distances = np.sum((wmp[np.newaxis, :] - pmt_locs)**2, axis=1)**0.5
Distances(p, mean, cfg) ==
    [i \in DOMAIN p |->
       RSqrt[Plus[SquaredDifference[mean[1], cfg.pmt_locations[p[i]][1]],
                  SquaredDifference[mean[2], cfg.pmt_locations[p[i]][2]]]]]

\* is_outlier = distances > wmd * self.outlier_threshold, with
\* wmd = np.average(distances, weights=hitpattern)
IsOutlier(p, dist, area, cfg) ==
    [i \in DOMAIN p |->
       RLess(Times[Average[dist, Hitpattern(p, area)].value, cfg.outlier_threshold],
             dist[i])]

\* np.argmax(distances): the first index of the largest entry
ArgMax(dist) ==
    CHOOSE i \in DOMAIN dist :
        /\ \A j \in DOMAIN dist : RLeq(dist[j], dist[i])
        /\ \A j \in DOMAIN dist : j < i => RLess(dist[j], dist[i])

\* the working set with the entries at the given indices taken out
Without(p, indices) ==
    [i \in 1..Cardinality(DOMAIN p \ indices) |-> p[Ascending[DOMAIN p \ indices][i]]]

\* the removal step taking out every outlier, also when all are outliers
RemainingAllOutliersRemoved(p, dist, is_outlier) ==
    Without(p, {i \in DOMAIN p : is_outlier[i]})

\* the removal step: np.delete(pmts, np.argmax(distances)) when all are
\* outliers, pmts[True ^ is_outlier] otherwise
Remaining(p, dist, is_outlier) ==
    IF \A i \in DOMAIN p : is_outlier[i]
    THEN Without(p, {ArgMax(dist)})
    ELSE Without(p, {i \in DOMAIN p : is_outlier[i]})

\* "if len(pmts) <= self.config['min_pmts_left']: break"
GiveUp(p, cfg) == Len(p) <= cfg.min_pmts_left

\* PMT ch sits at distance ch * ch from the first one, along x
PmtLayouts ==
    {[ch \in TopChannels |-> <<R(ch * ch), R(0)>>]}

OutlierThresholds == {R(0 - 1), R(0), Frac(1, 2), R(1), R(2)}

\* startup(): the configurations tried; the last PMT is the outer ring
RwmConfigs ==
    {[outlier_threshold |-> t,
      min_pmts_left |-> m,
      pmts |-> TopChannels,
      pmt_locations |-> l,
      outer_ring_pmts |-> {MaxPmts - 1},
      outer_ring_multiplication_factor |-> f] :
        t \in OutlierThresholds, m \in (0 - 1)..MaxPmts, l \in PmtLayouts,
        f \in {R(1), R(2)}}

\* the areas a peak may have seen: nothing, one photo-electron or three in
\* each PMT of the top array, and one in the other channel
HitAreas == {0, 1, 3}

HitPatterns ==
    {[ch \in AllChannels |-> IF ch \in TopChannels THEN R(a[ch]) ELSE R(1)] :
        a \in [TopChannels -> HitAreas]}

Peak(type, area) ==
    [type |-> type, area_per_channel |-> area, reconstructed_positions |-> <<>>]

\* the events tried: an S1 alone, an S2 after an S1, and two S2s around an
\* S1; every PMT saw the S1 alike
PosRecEvents ==
    LET s1 == Peak("s1", [ch \in AllChannels |-> R(1)])
    IN {<<s1>>}
       \cup {<<s1, Peak("s2", a)>> : a \in HitPatterns}
       \cup {<<Peak("s2", a), s1, Peak("s2", [ch \in AllChannels |-> R(1)])>> :
                a \in HitPatterns}

\* event.S2s(): the positions of the S2 peaks after position k
S2sAfter(k) == {i \in DOMAIN peaks : i > k /\ peaks[i].type = "s2"}

\* the plugin before startup()
InitPosRec ==
    /\ NoFitter
    /\ NoProcessor
    /\ NoXed
    /\ NoFax
    /\ rwm_config = None
    /\ peaks = <<>>
    /\ peak_at = 0
    /\ area_per_channel = <<>>
    /\ pmts = <<>>
    /\ wmp = None
    /\ distances = <<>>
    /\ n_removed = None
    /\ posrec_pc = "startup"

\* startup(): the configuration is read
Startup ==
    /\ posrec_pc = "startup"
    /\ rwm_config' \in RwmConfigs
    /\ posrec_pc' = "ready"
    /\ UNCHANGED <<peaks, peak_at, area_per_channel, pmts, wmp, distances, n_removed,
                   fitter_vars, processor_vars, xed_vars, fax_vars>>

\* transform_event(event) is entered
TransformEvent ==
    /\ posrec_pc = "ready"
    /\ peaks' \in PosRecEvents
    /\ posrec_pc' = "for"
    /\ UNCHANGED <<rwm_config, peak_at, area_per_channel, pmts, wmp, distances, n_removed,
                   fitter_vars, processor_vars, xed_vars, fax_vars>>

\* the for loop takes the next S2: the area is copied and upweighted, and
\* the PMTs with some area make the working set; with one PMT or none the
\* position is (nan, nan)
StartPeak ==
    /\ posrec_pc = "for"
    /\ S2sAfter(peak_at) # {}
    /\ \E k \in {Least[S2sAfter(peak_at)]} :
       \E area \in {Upweighted(peaks[k].area_per_channel, rwm_config)} :
       \E p \in {PmtsWithArea(area, rwm_config)} :
          /\ peak_at' = k
          /\ area_per_channel' = area
          /\ pmts' = p
          /\ n_removed' = None
          /\ distances' = <<>>
          /\ IF Len(p) <= 1
             THEN wmp' = <<NaN, NaN>> /\ posrec_pc' = "append"
             ELSE wmp' = None /\ posrec_pc' = "while"
    /\ UNCHANGED <<rwm_config, peaks, fitter_vars, processor_vars, xed_vars, fax_vars>>

\* a pass of the while loop begins: the weighted mean position and the
\* distances of the PMTs from it; np.average raising ends transform_event
ComputePass ==
    /\ posrec_pc = "while"
    /\ \E mean \in {Wmp(pmts, area_per_channel, rwm_config)} :
          IF mean.kind # "ok"
          THEN /\ posrec_pc' = "raised"
               /\ UNCHANGED <<wmp, distances>>
          ELSE /\ wmp' = mean.value
               /\ distances' = Distances(pmts, mean.value, rwm_config)
               /\ posrec_pc' = "outliers"
    /\ UNCHANGED <<rwm_config, peaks, peak_at, area_per_channel, pmts, n_removed,
                   fitter_vars, processor_vars, xed_vars, fax_vars>>

\* the pass finds no outliers: break
NoOutliers ==
    /\ posrec_pc = "outliers"
    /\ \E is_outlier \in {IsOutlier(pmts, distances, area_per_channel, rwm_config)} :
          \A i \in DOMAIN pmts : ~is_outlier[i]
    /\ n_removed' = <<0>>
    /\ posrec_pc' = "append"
    /\ UNCHANGED <<rwm_config, peaks, peak_at, area_per_channel, pmts, wmp, distances,
                   fitter_vars, processor_vars, xed_vars, fax_vars>>

\* the pass finds outliers and removes them, then gives up or goes round
\* again
RemoveOutliers ==
    /\ posrec_pc = "outliers"
    /\ \E is_outlier \in {IsOutlier(pmts, distances, area_per_channel, rwm_config)} :
          /\ \E i \in DOMAIN pmts : is_outlier[i]
          /\ \E left \in {Remaining(pmts, distances, is_outlier)} :
                /\ pmts' = left
                /\ n_removed' = <<Len(pmts) - Len(left)>>
                /\ posrec_pc' = IF GiveUp(left, rwm_config) THEN "append" ELSE "while"
    /\ UNCHANGED <<rwm_config, peaks, peak_at, area_per_channel, wmp, distances,
                   fitter_vars, processor_vars, xed_vars, fax_vars>>

\* peak.reconstructed_positions.append(ReconstructedPosition(...))
AppendPosition ==
    /\ posrec_pc = "append"
    /\ peaks' = [peaks EXCEPT ![peak_at].reconstructed_positions =
                    Append(@, [x |-> wmp[1], y |-> wmp[2],
                               algorithm |-> "PosRecRobustWeightedMean"])]
    /\ posrec_pc' = "for"
    /\ UNCHANGED <<rwm_config, peak_at, area_per_channel, pmts, wmp, distances, n_removed,
                   fitter_vars, processor_vars, xed_vars, fax_vars>>

\* no S2 is left: return event
ReturnEvent ==
    /\ posrec_pc = "for"
    /\ S2sAfter(peak_at) = {}
    /\ posrec_pc' = "returned"
    /\ UNCHANGED <<rwm_config, peaks, peak_at, area_per_channel, pmts, wmp, distances,
                   n_removed, fitter_vars, processor_vars, xed_vars, fax_vars>>

NextPosRec ==
    \/ Startup
    \/ TransformEvent
    \/ StartPeak
    \/ ComputePass
    \/ NoOutliers
    \/ RemoveOutliers
    \/ AppendPosition
    \/ ReturnEvent

SpecPosRec == InitPosRec /\ [][NextPosRec]_vars

\* transform_event is not suspended for ever: a step it can take is taken
SpecPosRecFair == SpecPosRec /\ WF_vars(NextPosRec)

(***************************************************************************)
(* plugins/io/XED.py: the zle0 decoding of a chunk's channels.  A 4-byte    *)
(* word is kept as its highest bit and its lower 31 bits, the numbers the   *)
(* code obtains by comparing with 2 ** 31 and subtracting it.  A word of    *)
(* the channel data is a control word or two 16-bit samples, according to   *)
(* where the reading stands.                                                *)
(***************************************************************************)
Word(high, low) == [high |-> high, low |-> low]

\* control_word < 2 ** 31
IsSkip(control_word) == control_word.high = 0

\* 2 * control_word, for a control word below 2 ** 31
SkippedSamples(control_word) == 2 * control_word.low

\* data_samples = 2 * (control_word - (2 ** 31))
DataSamples(control_word) == 2 * control_word.low

\* channel_fake_file.read(2 * data_samples): the words that hold data_samples
\* 16-bit samples, or the words that are left when the data ends before them
ReadSamples(words, from, data_samples) ==
    LET wanted == data_samples \div 2
        left == Len(words) - from
        got == IF wanted <= left THEN wanted ELSE left
    IN SubSeq(words, from + 1, from + got)

\* len(samples_pulse): two samples to the word
SamplesIn(raw_data) == 2 * Len(raw_data)

\* Pulse(channel=channel_id, left=sample_position, raw_data=samples_pulse)
Pulse(channel_id, left, raw_data) ==
    [channel |-> channel_id, left |-> left, raw_data |-> raw_data]

\* a position advanced by the sample pairs of the pulse
AfterPulseCountingPairs(position, samples_pulse) == position + Len(samples_pulse)

\* sample_position += len(samples_pulse)
AfterPulse(position, samples_pulse) == position + SamplesIn(samples_pulse)

LowBits == 0..2
Words == {Word(high, low) : high \in {0, 1}, low \in LowBits}

\* the data of one channel: any words, also data that ends before the
\* samples its last control word announces
ChannelData == UNION {[1..n -> Words] : n \in 0..MaxWords}

\* another channel of the chunk (the first PMT is channel 1): a gap of two samples, then a pulse of two
SecondChannel == <<Word(0, 1), Word(1, 1), Word(0, 0)>>

Chunks ==
    {<<[channel_id |-> 1, data |-> words]>> : words \in ChannelData}
    \cup {<<[channel_id |-> 1, data |-> words],
            [channel_id |-> 2, data |-> SecondChannel]>> : words \in ChannelData}

\* the channel data being read
ChannelFakeFile == chunk[channel_at].data

InitXed ==
    /\ NoFitter
    /\ NoProcessor
    /\ NoPosRec
    /\ NoFax
    /\ chunk \in Chunks
    /\ channel_at = 0
    /\ words_read = 0
    /\ sample_position = 0
    /\ pulses = <<>>
    /\ xed_pc = "channels"

\* for channel_id in channels_included: the channel's data is cut out of
\* the chunk and read from its start, with sample_position = 0
NextChannel ==
    /\ xed_pc = "channels"
    /\ channel_at < Len(chunk)
    /\ channel_at' = channel_at + 1
    /\ words_read' = 0
    /\ sample_position' = 0
    /\ xed_pc' = "words"
    /\ UNCHANGED <<chunk, pulses, fitter_vars, processor_vars, posrec_vars, fax_vars>>

\* a control word below 2 ** 31: only the position moves
SkipSamples ==
    /\ xed_pc = "words"
    /\ words_read < Len(ChannelFakeFile)
    /\ \E control_word \in {ChannelFakeFile[words_read + 1]} :
          /\ IsSkip(control_word)
          /\ sample_position' = sample_position + SkippedSamples(control_word)
    /\ words_read' = words_read + 1
    /\ UNCHANGED <<chunk, channel_at, pulses, xed_pc,
                   fitter_vars, processor_vars, posrec_vars, fax_vars>>

\* a control word from 2 ** 31: the samples after it become a pulse
ReadPulse ==
    /\ xed_pc = "words"
    /\ words_read < Len(ChannelFakeFile)
    /\ \E control_word \in {ChannelFakeFile[words_read + 1]} :
          /\ ~IsSkip(control_word)
          /\ \E samples_pulse \in {ReadSamples(ChannelFakeFile, words_read + 1,
                                               DataSamples(control_word))} :
                /\ pulses' = Append(pulses, Pulse(chunk[channel_at].channel_id,
                                                  sample_position, samples_pulse))
                /\ sample_position' = AfterPulse(sample_position, samples_pulse)
                /\ words_read' = words_read + 1 + Len(samples_pulse)
    /\ UNCHANGED <<chunk, channel_at, xed_pc,
                   fitter_vars, processor_vars, posrec_vars, fax_vars>>

\* if not control_word_string: break
ChannelRead ==
    /\ xed_pc = "words"
    /\ words_read = Len(ChannelFakeFile)
    /\ xed_pc' = "channels"
    /\ UNCHANGED <<chunk, channel_at, words_read, sample_position, pulses,
                   fitter_vars, processor_vars, posrec_vars, fax_vars>>

\* the loop over the channels is over: the event is handed back
ReturnXedEvent ==
    /\ xed_pc = "channels"
    /\ channel_at = Len(chunk)
    /\ xed_pc' = "returned"
    /\ UNCHANGED <<chunk, channel_at, words_read, sample_position, pulses,
                   fitter_vars, processor_vars, posrec_vars, fax_vars>>

NextXed ==
    \/ NextChannel
    \/ SkipSamples
    \/ ReadPulse
    \/ ChannelRead
    \/ ReturnXedEvent

SpecXed == InitXed /\ [][NextXed]_vars

(***************************************************************************)
(* plugins/io/WaveformSimulator.py: simulate_single_event.  The physics is  *)
(* in pax.simulation, outside these plugins: what the simulator draws (the  *)
(* photons of an S1, the electrons and photons of an S2, the electrons of   *)
(* the after-pulses) is chosen freely, and a hit pattern is kept as the     *)
(* signal it comes from and the number of its photons.  Positions and times *)
(* play no part in what follows and are left out.                           *)
(***************************************************************************)
\* n arrival times
PhotonTimes(n) == [k \in 1..n |-> k]

\* Python's None where a hit pattern is expected
NoHitpattern == [signal |-> "None", photons |-> 0]

\* self.simulator.make_hitpattern(photon_times, ...)
MakeHitpattern(signal, photon_times) == [signal |-> signal, photons |-> Len(photon_times)]

\* store_true_peak(peak_type, ..., photon_times, electron_times): the peak
\* appended to self.truth_peaks
TruePeak(peak_type, photon_times, electron_times) ==
    [peak_type |-> peak_type,
     n_photons |-> IF Len(photon_times) # 0 THEN R(Len(photon_times)) ELSE NaN,
     n_electrons |-> IF Len(electron_times) # 0 THEN R(Len(electron_times)) ELSE NaN]

\* s1(photons, ...), photon_times being what simulator.s1_photons gave
S1(photon_times) ==
    IF Len(photon_times) = 0
    THEN [photon_times |-> <<>>, hitpattern |-> NoHitpattern, true_peaks |-> <<>>]
    ELSE [photon_times |-> photon_times,
          hitpattern |-> MakeHitpattern("s1", photon_times),
          true_peaks |-> <<TruePeak("s1", photon_times, <<>>)>>]

\* s2(electrons, ...), electron_times being what simulator.s2_electrons gave
\* and photon_times what simulator.s2_scintillation gave for them
S2(electron_times, photon_times) ==
    IF Len(electron_times) = 0 \/ Len(photon_times) = 0
    THEN [photon_times |-> <<>>, hitpattern |-> NoHitpattern, true_peaks |-> <<>>]
    ELSE [photon_times |-> photon_times,
          hitpattern |-> MakeHitpattern("s2", photon_times),
          true_peaks |-> <<TruePeak("s2", photon_times, electron_times)>>]

\* the loop of after_pulse from fold fold_id on: generated[fold_id] has, for
\* each electron simulator.after_pulse_electrons gave in that fold, the
\* number of photons of its scintillation
RECURSIVE AfterPulseFolds(_, _, _, _)
AfterPulseFolds(primary_photons, fold_id, n_fold_generation, generated) ==
    IF fold_id >= n_fold_generation \/ primary_photons = 0 THEN <<>>
    ELSE LET electrons == generated[fold_id + 1]
         IN [e \in 1..Len(electrons) |->
               MakeHitpattern("after_pulse", PhotonTimes(electrons[e]))]
            \o AfterPulseFolds(SumSeq(electrons), fold_id + 1, n_fold_generation, generated)

\* after_pulse(photon_times, ...): None when there are no photons, else the
\* list of the hit patterns of the after-pulses
AfterPulses(photon_times, n_fold_generation, generated) ==
    IF Len(photon_times) = 0
    THEN [is_none |-> TRUE, list |-> <<>>]
    ELSE [is_none |-> FALSE,
          list |-> AfterPulseFolds(Len(photon_times), 0, n_fold_generation, generated)]

\* sum(hitpatterns)
SumOfHitpatterns(patterns) ==
    [signal |-> "sum", photons |-> SumSeq([k \in DOMAIN patterns |-> patterns[k].photons])]

\* [h for h in hitpatterns if h is not None]
RECURSIVE NotNone(_)
NotNone(patterns) ==
    IF patterns = <<>> THEN <<>>
    ELSE IF Head(patterns) = NoHitpattern THEN NotNone(Tail(patterns))
    ELSE <<Head(patterns)>> \o NotNone(Tail(patterns))

\* self.simulator.to_pax_event(big_hitpattern)
ToPaxEvent(big_hitpattern) == [hitpattern |-> big_hitpattern]

FoldGenerations == 0..2

\* the simulator's after-pulse electrons of two folds
Generated == [1..2 -> {<<>>, <<0>>, <<1>>}]

\* a signal is asked for with 1 photon or 1 electron, or not at all
Instructions ==
    UNION {[1..n -> [s1_photons : {0, 1}, s2_electrons : {0, 1}]] : n \in 0..MaxInstructions}

InitFax ==
    /\ NoFitter
    /\ NoProcessor
    /\ NoPosRec
    /\ NoXed
    /\ fax_config \in [n_fold_generation_after_pulse : FoldGenerations]
    /\ instructions \in Instructions
    /\ instruction_at = 0
    /\ hitpatterns = <<>>
    /\ truth_peaks = <<>>
    /\ simulated = None
    /\ fax_pc = "for"

\* for q in instructions
NextInstruction ==
    /\ fax_pc = "for"
    /\ IF instruction_at < Len(instructions)
       THEN instruction_at' = instruction_at + 1 /\ fax_pc' = "s1"
       ELSE instruction_at' = instruction_at /\ fax_pc' = "event"
    /\ UNCHANGED <<fax_config, instructions, hitpatterns, truth_peaks, simulated,
                   fitter_vars, processor_vars, posrec_vars, xed_vars>>

\* the signal and its after-pulses are appended to hitpatterns; the loop
\* over the after-pulses raises when after_pulse gave None
SignalAppended(signal, after, at, pc_after) ==
    /\ truth_peaks' = truth_peaks \o signal.true_peaks
    /\ hitpatterns' = Append(hitpatterns, signal.hitpattern) \o after.list
    /\ IF after.is_none
       THEN simulated' = Raise("TypeError", at) /\ fax_pc' = "raised"
       ELSE simulated' = simulated /\ fax_pc' = pc_after

\* if int(q['s1_photons']): the S1 and its after-pulses
SimulateS1 ==
    /\ fax_pc = "s1"
    /\ IF instructions[instruction_at].s1_photons = 0
       THEN fax_pc' = "s2" /\ UNCHANGED <<hitpatterns, truth_peaks, simulated>>
       ELSE \E n \in 0..instructions[instruction_at].s1_photons, generated \in Generated :
            \E signal \in {S1(PhotonTimes(n))} :
                SignalAppended(signal,
                               AfterPulses(signal.photon_times,
                                           fax_config.n_fold_generation_after_pulse,
                                           generated),
                               "for s1_after_pulse_hitpattern", "s2")
    /\ UNCHANGED <<fax_config, instructions, instruction_at,
                   fitter_vars, processor_vars, posrec_vars, xed_vars>>

\* if int(q['s2_electrons']): the S2 and its after-pulses
SimulateS2 ==
    /\ fax_pc = "s2"
    /\ IF instructions[instruction_at].s2_electrons = 0
       THEN fax_pc' = "for" /\ UNCHANGED <<hitpatterns, truth_peaks, simulated>>
       ELSE \E electrons \in 0..instructions[instruction_at].s2_electrons,
               n \in 0..1, generated \in Generated :
            \E signal \in {S2(PhotonTimes(electrons), PhotonTimes(n))} :
                SignalAppended(signal,
                               AfterPulses(signal.photon_times,
                                           fax_config.n_fold_generation_after_pulse,
                                           generated),
                               "for s2_after_pulse_hitpattern", "for")
    /\ UNCHANGED <<fax_config, instructions, instruction_at,
                   fitter_vars, processor_vars, posrec_vars, xed_vars>>

\* the hit patterns are combined and the event is handed back
ReturnSimulatedEvent ==
    /\ fax_pc = "event"
    /\ hitpatterns' = NotNone(hitpatterns)
    /\ simulated' = Ok(ToPaxEvent(IF Len(hitpatterns') # 0
                                  THEN SumOfHitpatterns(hitpatterns')
                                  ELSE NoHitpattern))
    /\ fax_pc' = "returned"
    /\ UNCHANGED <<fax_config, instructions, instruction_at, truth_peaks,
                   fitter_vars, processor_vars, posrec_vars, xed_vars>>

NextFax ==
    \/ NextInstruction
    \/ SimulateS1
    \/ SimulateS2
    \/ ReturnSimulatedEvent

SpecFax == InitFax /\ [][NextFax]_vars

----------------------------------------------------------------------------
(* Properties *)

\* value lies in [minimum, maximum] of axis d
Within(value, d) ==
    /\ RLeq(coordinate_data[d].minimum, value)
    /\ RLeq(value, coordinate_data[d].maximum)

AllWithin(coordinates) == \A d \in Dims : Within(coordinates[d], d)

Returned(op) == pc = "returned" /\ call.op = op

\* C1: for every axis and every value within [minimum, maximum],
\* _get_bin_index returns an index in 0..n_bins-1; the axis maximum maps to
\* the last bin n_bins-1.
C1_BinIndexIsValidBin ==
    (Returned("_get_bin_index") /\ Within(call.value, call.dimension_i)) =>
        /\ result.kind = "ok"
        /\ result.value \in 0..(coordinate_data[call.dimension_i].n_bins - 1)

\* C2: _get_bin_index raises the out-of-range error exactly when the value
\* is strictly below the axis minimum or strictly above the axis maximum.
C2_OutOfRangeIffOutside ==
    Returned("_get_bin_index") =>
        LET cd == coordinate_data[call.dimension_i]
        IN /\ (result.kind = OutOfRange) <=>
                  (RLess(call.value, cd.minimum) \/ RLess(cd.maximum, call.value))
           /\ result.kind \in {"ok", OutOfRange}

C2_Witness ==
    /\ Returned("_get_bin_index")
    /\ call.value = coordinate_data[call.dimension_i].maximum
    /\ result.kind = "ok"

\* C3: the bin index of the centre of bin i is i, for every bin i of every
\* axis.
C3_CenterRoundTrip ==
    Returned("_get_bin_center") =>
        GetBinIndex(result.value, call.dimension_i) = Ok(call.bin_i)

C3_Witness ==
    /\ Returned("_get_bin_center")
    /\ call.bin_i > 0
    /\ call.bin_i = coordinate_data[call.dimension_i].n_bins - 1
    /\ Dimensions = 2
    /\ GetBinIndex(result.value, call.dimension_i) = Ok(call.bin_i)

\* the bin that holds a value of axis d according to the axis definition:
\* half-open bins, the topmost one closed at the maximum
BinHolding(value, d) ==
    LET cd == coordinate_data[d]
    IN IF value = cd.maximum THEN cd.n_bins - 1
       ELSE IntTrunc(RDiv(RSub(value, cd.minimum), cd.bin_spacing))

BinsHolding(coordinates) == [d \in Dims |-> BinHolding(coordinates[d], d)]

\* total expected response of the map at in-range coordinates
TotalResponseAt(coordinates) == RSumSeq(data[BinsHolding(coordinates)])

\* C4: at coordinates within the bounds of every axis (both ends included)
\* where the total expected response is nonzero, expected_pattern returns
\* one entry per channel, each >= 0, summing to 1.
C4_PatternIsDistribution ==
    (/\ Returned("expected_pattern")
     /\ AllWithin(call.coordinates)
     /\ TotalResponseAt(call.coordinates) # R(0)) =>
        /\ result.kind = "ok"
        /\ DOMAIN result.value.array = Channels
        /\ \A c \in Channels : RLeq(R(0), result.value.array[c])
        /\ RSumSeq(result.value.array) = R(1)

\* C5 as claimed: at in-range coordinates whose bin has a total expected
\* response of zero, expected_pattern fails with an error of a kind of its
\* own, distinct from the out-of-range error.
C5_EmptyPatternOwnErrorKind ==
    (/\ Returned("expected_pattern")
     /\ AllWithin(call.coordinates)
     /\ TotalResponseAt(call.coordinates) = R(0)) =>
        /\ result.kind # "ok"
        /\ result.kind # OutOfRange

\* C5 as amended: at in-range coordinates whose bin has a total expected
\* response of zero, expected_pattern never returns a vector, and the error
\* its zero test raises is the out-of-range error itself.
C5_EmptyPatternRaisesOutOfRange ==
    (/\ Returned("expected_pattern")
     /\ AllWithin(call.coordinates)
     /\ TotalResponseAt(call.coordinates) = R(0)) =>
        /\ result.kind # "ok"
        /\ result.at = "expected_pattern" => result.kind = OutOfRange
        /\ GetBinIndices(call.coordinates).value \in DOMAIN data =>
               result.at = "expected_pattern"

C5_Witness ==
    /\ Returned("expected_pattern")
    /\ AllWithin(call.coordinates)
    /\ TotalResponseAt(call.coordinates) = R(0)
    /\ \E b \in DOMAIN data : RSumSeq(data[b]) # R(0)
    /\ result.kind = OutOfRange
    /\ result.at = "expected_pattern"

RECURSIVE RSumOver(_, _)
RSumOver(f, S) ==
    IF S = {} THEN R(0)
    ELSE LET c == CHOOSE x \in S : \A y \in S : x <= y
         IN RAdd(f[c], RSumOver(f, S \ {c}))

\* the channels a call's mask selects
SelectedChannels == {c \in Channels : Selection(pmt_selection)[c]}

\* expected amplitude of channel c at a bin: its share of the expected
\* response of the selected channels, times the selected observed total
ExpectedAmplitude(bin, c) ==
    RMul(RDiv(data[bin][c], RSumOver([x \in Channels |-> data[bin][x]], SelectedChannels)),
         RSumOver([x \in Channels |-> R(areas_observed[x])], SelectedChannels))

\* squared systematic error of channel c
SquaredError(c) == SystErrors(areas_observed, square_syst_errors)[c]

Squared(x) == RMul(x, x)

\* (observed + m - expected)^2 / (expected + systematic_error^2 + 1)
GammaTerm(bin, c, m) ==
    RDiv(Squared(RSub(RAdd(R(areas_observed[c]), R(m)), ExpectedAmplitude(bin, c))),
         RAdd(RAdd(ExpectedAmplitude(bin, c), SquaredError(c)), R(1)))

MaxWith1(a) == IF a >= 1 THEN a ELSE 1

MinWith1(a) == IF a <= 1 THEN a ELSE 1

\* the bins a returned compute_gof or compute_gof_grid evaluated, each with
\* the statistic it got
EvaluatedBins ==
    IF call.op = "compute_gof"
    THEN {<<GetBinIndices(call.coordinates).value, result.value>>}
    ELSE {<<[d \in Dims |-> result.value.lowest_bins[d] + k[d]], result.value.gofs[k]>> :
             k \in DOMAIN result.value.gofs}

GofReturned(statistic) ==
    /\ pc = "returned"
    /\ call.op \in {"compute_gof", "compute_gof_grid"}
    /\ call.statistic = statistic
    /\ result.kind = "ok"

\* channel c of a bin has observed = expected and no systematic error
ExactChannel(bin, c) ==
    /\ c \in SelectedChannels
    /\ ExpectedAmplitude(bin, c) = R(areas_observed[c])
    /\ SquaredError(c) = R(0)

\* C7 as claimed: the chi2gamma statistic of a bin sums, over the selected
\* channels, (observed + max(observed, 1) - expected)^2 /
\* (expected + systematic_error^2 + 1); a channel with observed = expected
\* and no systematic error contributes max(observed, 1)^2 / (observed + 1).
C7_Chi2GammaWithMax ==
    GofReturned("chi2gamma") =>
        \A e \in EvaluatedBins :
            /\ e[2] = RSumOver([c \in Channels |->
                                  GammaTerm(e[1], c, MaxWith1(areas_observed[c]))],
                               SelectedChannels)
            /\ \A c \in Channels : ExactChannel(e[1], c) =>
                   Chi2GammaTerm(areas_observed[c], ExpectedAmplitude(e[1], c), SquaredError(c))
                     = Frac(MaxWith1(areas_observed[c]) * MaxWith1(areas_observed[c]),
                            areas_observed[c] + 1)

\* C7 as amended: the chi2gamma statistic of a bin sums, over the selected
\* channels, (observed + min(observed, 1) - expected)^2 /
\* (expected + systematic_error^2 + 1); a channel with observed = expected
\* and no systematic error contributes min(observed, 1)^2 / (observed + 1).
C7_Chi2GammaWithMin ==
    GofReturned("chi2gamma") =>
        \A e \in EvaluatedBins :
            /\ e[2] = RSumOver([c \in Channels |->
                                  GammaTerm(e[1], c, MinWith1(areas_observed[c]))],
                               SelectedChannels)
            /\ \A c \in Channels : ExactChannel(e[1], c) =>
                   Chi2GammaTerm(areas_observed[c], ExpectedAmplitude(e[1], c), SquaredError(c))
                     = Frac(MinWith1(areas_observed[c]) * MinWith1(areas_observed[c]),
                            areas_observed[c] + 1)

\* a returned statistic with a channel above 1 and a channel below 1, both
\* with observed = expected and no systematic error
C7_Witness ==
    /\ GofReturned("chi2gamma")
    /\ call.op = "compute_gof"
    /\ IsFinite(result.value)
    /\ \E c \in Channels :
          /\ areas_observed[c] > 1
          /\ ExactChannel(GetBinIndices(call.coordinates).value, c)
    /\ \E c \in Channels :
          /\ areas_observed[c] < 1
          /\ ExactChannel(GetBinIndices(call.coordinates).value, c)

\* (observed + expected)^2 / (expected + systematic_error^2)
Chi2Term(bin, c) ==
    RDiv(Squared(RAdd(R(areas_observed[c]), ExpectedAmplitude(bin, c))),
         RAdd(ExpectedAmplitude(bin, c), SquaredError(c)))

\* C8: with statistic 'chi2', compute_gof and compute_gof_grid succeed at
\* every in-range bin with nonzero expected response and return, per bin,
\* the sum over the selected channels of
\* (observed + expected)^2 / (expected + systematic_error^2).
C8_Chi2Succeeds ==
    (/\ pc = "returned"
     /\ call.op \in {"compute_gof", "compute_gof_grid"}
     /\ call.statistic = "chi2"
     /\ AllWithin(call.coordinates)
     /\ TotalResponseAt(call.coordinates) # R(0)) =>
        /\ result.kind = "ok"
        /\ \A e \in EvaluatedBins :
              RSumSeq(data[e[1]]) # R(0) =>
                  e[2] = RSumOver([c \in Channels |-> Chi2Term(e[1], c)], SelectedChannels)

UnsupportedStatistic(r) == r.kind = "ValueError" /\ r.at = "statistic"

\* C9: compute_gof, compute_gof_grid and minimize_gof_grid called at
\* in-range coordinates fail with the unsupported-statistic error when the
\* statistic is neither 'chi2' nor 'chi2gamma', and never raise it when it
\* is one of the two.
C9_UnsupportedStatisticRaises ==
    (/\ pc = "returned"
     /\ call.op \in {"compute_gof", "compute_gof_grid", "minimize_gof_grid"}
     /\ AllWithin(call.coordinates)) =>
        (UnsupportedStatistic(result) <=> call.statistic \notin {"chi2", "chi2gamma"})

\* C10: compute_gof_grid and minimize_gof_grid fail with the out-of-range
\* error exactly when a component of the centre lies outside its axis; for
\* a centre in range every grid_size >= 0 is accepted, the window being
\* clamped to the axis: compute_gof_grid (chi2gamma) returns a grid whose
\* bins are all bins of the map.
C10_GridOutOfRangeIffCentreOutside ==
    (pc = "returned" /\ call.op \in {"compute_gof_grid", "minimize_gof_grid"}) =>
        /\ (result.kind = OutOfRange) <=> ~AllWithin(call.coordinates)
        /\ (/\ call.op = "compute_gof_grid"
            /\ call.statistic = "chi2gamma"
            /\ AllWithin(call.coordinates)) =>
               /\ result.kind = "ok"
               /\ \A e \in EvaluatedBins : e[1] \in DOMAIN data

\* a grid of several bins returned for a window that reaches beyond the
\* upper end of an axis
C10_Witness ==
    /\ GofReturned("chi2gamma")
    /\ call.op = "compute_gof_grid"
    /\ \E d \in Dims :
          /\ RLess(coordinate_data[d].maximum,
                   RAdd(call.coordinates[d], RDiv(call.grid_size, R(2))))
          /\ result.value.shape[d] > 1

----------------------------------------------------------------------------
(* The grid of one bin *)

\* compute_gof at the coordinates and with the arrays of the call made
GofAtCall ==
    ComputeGof(call.coordinates, areas_observed, pmt_selection,
               square_syst_errors, call.statistic)

\* the offset of the first bin of a grid
ZeroOffset == [d \in Dims |-> 0]

\* C11: for every in-range centre (components equal to an axis minimum or
\* maximum included), compute_gof_grid with grid_size 0 returns a grid of
\* exactly one bin per dimension whose value is that of compute_gof at the
\* centre with the same arrays and statistic, and whose lowest-bin offsets
\* are get_bin_indices(centre).
C11_DegenerateGridEqualsComputeGof ==
    (/\ Returned("compute_gof_grid")
     /\ call.grid_size = R(0)
     /\ call.statistic = "chi2gamma"
     /\ AllWithin(call.coordinates)) =>
        /\ result.kind = "ok"
        /\ \A d \in Dims : result.value.shape[d] = 1
        /\ DOMAIN result.value.gofs = {ZeroOffset}
        /\ GofAtCall.kind = "ok"
        /\ result.value.gofs[ZeroOffset] = GofAtCall.value
        /\ result.value.lowest_bins = GetBinIndices(call.coordinates).value

----------------------------------------------------------------------------
(* The minimum of the grid *)

\* compute_gof_grid with the arguments and arrays of the call made
GridAtCall ==
    ComputeGofGrid(call.coordinates, call.grid_size, areas_observed, pmt_selection,
                   square_syst_errors, call.statistic)

\* position of offset k in the row-major scan of a grid of the given shape:
\* the last axis varies fastest
RECURSIVE ScanPosition(_, _)
ScanPosition(k, shape) ==
    IF k = <<>> THEN 0
    ELSE LET n == Len(k)
         IN ScanPosition(SubSeq(k, 1, n - 1), SubSeq(shape, 1, n - 1)) * shape[n] + k[n]

\* the offsets of the grid's entries that are not NaN
NonNaNEntries(grid) == {k \in DOMAIN grid.gofs : ~IsNaN(grid.gofs[k])}

\* the offsets at which the smallest non-NaN value of the grid is attained
GridMinima(grid) ==
    {k \in NonNaNEntries(grid) :
        \A j \in NonNaNEntries(grid) : RLeq(grid.gofs[k], grid.gofs[j])}

\* C12: the GOF minimize_gof_grid returns is the minimum over the non-NaN
\* entries of the grid compute_gof_grid returns for the same arguments, and
\* the coordinate returned is, per dimension d,
\* _get_bin_center(lowest_bins[d] + k[d], d) for the offset k of that
\* minimum: of the offsets attaining it, the first in row-major scan order.
C12_GridMinimumFirstInRowMajor ==
    (Returned("minimize_gof_grid") /\ result.kind = "ok") =>
        /\ GridAtCall.kind = "ok"
        /\ LET grid == GridAtCall.value
           IN /\ GridMinima(grid) # {}
              /\ \A k \in GridMinima(grid) : result.value.gof = grid.gofs[k]
              /\ \E k \in GridMinima(grid) :
                    /\ \A j \in GridMinima(grid) :
                          ScanPosition(k, grid.shape) <= ScanPosition(j, grid.shape)
                    /\ result.value.coordinates =
                          [d \in Dims |-> GetBinCenter(grid.lowest_bins[d] + k[d], d)]

\* a minimum attained at two bins of a two-axis grid, the one first along
\* the first axis and the other first along the second, with a NaN entry
\* elsewhere in the grid
C12_Witness ==
    /\ Returned("minimize_gof_grid")
    /\ result.kind = "ok"
    /\ Dimensions = 2
    /\ LET grid == GridAtCall.value
       IN /\ \E k \in DOMAIN grid.gofs : IsNaN(grid.gofs[k])
          /\ \E k, j \in GridMinima(grid) : k[1] < j[1] /\ k[2] > j[2]
          /\ \E k \in DOMAIN grid.gofs : k \notin GridMinima(grid) /\ ~IsNaN(grid.gofs[k])

----------------------------------------------------------------------------
(* The local search *)

\* the coordinates the minimizer evaluated during the call made, in order
Visited == <<call.coordinates>> \o call.trials

\* compute_gof at x with the arrays and statistic of the call made
GofAt(x) ==
    ComputeGof(x, areas_observed, pmt_selection, square_syst_errors, call.statistic)

\* no coordinate visited makes compute_gof raise anything but the
\* out-of-range error
OnlyOutOfRangeRaised ==
    \A i \in DOMAIN Visited : GofAt(Visited[i]).kind \in {"ok", OutOfRange}

\* C13: in minimize_gof_powell an objective evaluation at a coordinate
\* outside the axis bounds yields +infinity and the search goes on: the
\* out-of-range error never reaches the caller, whatever coordinates the
\* minimizer visits; the search ends with a result unless compute_gof raises
\* an error of another kind, and a best coordinate outside the bounds comes
\* with the value +infinity.
C13_OutOfRangeBecomesInfinity ==
    Returned("minimize_gof_powell") =>
        /\ result.kind # OutOfRange
        /\ OnlyOutOfRangeRaised => result.kind = "ok"
        /\ (/\ result.kind = "ok"
            /\ ~call.fopt_is_array
            /\ ~AllWithin(result.value.coordinates)) => result.value.gof = Inf

\* a search that starts outside the map, steps inside and ends there with a
\* finite value
C13_Witness ==
    /\ Returned("minimize_gof_powell")
    /\ ~AllWithin(call.coordinates)
    /\ \E i \in DOMAIN call.trials : AllWithin(call.trials[i])
    /\ result.kind = "ok"
    /\ AllWithin(result.value.coordinates)
    /\ IsFinite(result.value.gof)

\* C14: minimize_gof_powell returns (best_coordinates, best_gof); when the
\* minimizer hands back its function value as an array, best_gof is
\* not-a-number and no error is raised; when it hands back a plain scalar,
\* best_gof is that scalar, the objective's value at best_coordinates.
C14_ArrayFoptBecomesNaN ==
    Returned("minimize_gof_powell") =>
        /\ (call.fopt_is_array /\ OnlyOutOfRangeRaised) => result.kind = "ok"
        /\ result.kind = "ok" =>
              /\ {"coordinates", "gof"} \subseteq DOMAIN result.value
              /\ result.value.coordinates \in {Visited[i] : i \in DOMAIN Visited}
              /\ IF call.fopt_is_array
                 THEN IsNaN(result.value.gof)
                 ELSE result.value.gof =
                        IF AllWithin(result.value.coordinates)
                        THEN GofAt(result.value.coordinates).value
                        ELSE Inf

\* the minimizer never left the outside of the map and handed back its
\* function value, +infinity, as an array
C14_Witness ==
    /\ Returned("minimize_gof_powell")
    /\ call.fopt_is_array
    /\ \A i \in DOMAIN Visited : ~AllWithin(Visited[i])
    /\ result.kind = "ok"
    /\ IsNaN(result.value.gof)

----------------------------------------------------------------------------
(* Point lookups outside the map *)

----------------------------------------------------------------------------
(* The constructed fitter *)

\* C17: after construction with any integer zoom_factor z >= 1, for every
\* spatial axis, minimum and maximum are the template's, n_bins is z times
\* the template's n_bins, bin_spacing is (maximum - minimum) / n_bins, and
\* the stored map has n_bins bins along that axis; the channel axis has the
\* template's length.
C17_ZoomScalesAxes ==
    /\ Dimensions = Len(json_data.coordinate_system)
    /\ \A d \in Dims :
          LET cd == coordinate_data[d]
              axis == json_data.coordinate_system[d]
          IN /\ cd.minimum = axis.start
             /\ cd.maximum = axis.stop
             /\ cd.n_bins = zoom_factor * axis.n_bins
             /\ RMul(cd.bin_spacing, R(cd.n_bins)) = RSub(cd.maximum, cd.minimum)
             /\ DataShape(d) = cd.n_bins
             /\ \A b \in DOMAIN data : b[d] \in 0..(cd.n_bins - 1)
    /\ \A b \in DOMAIN data : \A t \in DOMAIN json_data.map :
          DOMAIN data[b] = DOMAIN json_data.map[t]
    /\ \A b \in DOMAIN data : n_points = Len(data[b])

\* a two-axis template with an axis of several bins, zoomed, in use
C17_Witness ==
    /\ zoom_factor > 1
    /\ Dimensions = 2
    /\ \E d \in Dims : /\ json_data.coordinate_system[d].n_bins > 1
                       /\ DataShape(d) = zoom_factor * json_data.coordinate_system[d].n_bins
    /\ \E b \in DOMAIN data : \A t \in DOMAIN json_data.map : data[b] # json_data.map[t]
    /\ Returned("expected_pattern")
    /\ result.kind = "ok"

----------------------------------------------------------------------------
(* Channels left out by the mask *)

\* the arrays over the given values that agree with f on the selected
\* channels
AgreeingOnSelected(f, values) ==
    {g \in [Channels -> values] : \A c \in SelectedChannels : g[c] = f[c]}

\* the systematic-error arrays a second call may pass: None when the call
\* made passed None
AgreeingErrors ==
    IF square_syst_errors = None THEN {None}
    ELSE AgreeingOnSelected(square_syst_errors, {R(0), R(1)})

\* C18: channels whose mask entry is False are left out of the statistic:
\* a second call of compute_gof or compute_gof_grid with the same
\* coordinates, mask and statistic, and the same observed amplitudes,
\* systematic errors and map values at every selected channel, gives the
\* same GOF whatever those are at the other channels.
C18_ExcludedChannelsDoNotCount ==
    GofReturned("chi2gamma") =>
        \A e \in EvaluatedBins :
            \A ao \in AgreeingOnSelected(areas_observed, 0..MaxArea) :
            \A sse \in AgreeingErrors :
            \A pattern \in AgreeingOnSelected(data[e[1]], {R(0), R(1), R(3)}) :
                GofOfPattern(pattern, ao, pmt_selection, sse) = e[2]

\* a statistic returned with a channel left out whose amplitude and
\* expected response are both nonzero
C18_Witness ==
    /\ GofReturned("chi2gamma")
    /\ call.op = "compute_gof"
    /\ SelectedChannels # {}
    /\ \E c \in Channels \ SelectedChannels :
          /\ areas_observed[c] > 0
          /\ data[GetBinIndices(call.coordinates).value][c] # R(0)
    /\ IsFinite(result.value)
    /\ result.value # R(0)

----------------------------------------------------------------------------
(* The default systematic errors *)

\* (default_fraction * observed amplitude)^2 of channel c
DefaultSquaredError(c) == Squared(RMul(default_errors, R(areas_observed[c])))

\* the chi2gamma term of channel c at a bin with the default error of that
\* same channel
DefaultErrorTerm(bin, c) ==
    RDiv(Squared(RSub(RAdd(R(areas_observed[c]), R(MinWith1(areas_observed[c]))),
                      ExpectedAmplitude(bin, c))),
         RAdd(RAdd(ExpectedAmplitude(bin, c), DefaultSquaredError(c)), R(1)))

\* C20: when no systematic-error array is passed, the squared systematic
\* error used for each selected channel c is
\* (default_fraction * observed_amplitude[c])^2 of that same channel in the
\* unmasked indexing, for every mask: the statistic is the sum over the
\* selected channels of the terms with that error.
C20_DefaultErrorOfSameChannel ==
    (GofReturned("chi2gamma") /\ square_syst_errors = None) =>
        /\ \A c \in Channels :
              SystErrors(areas_observed, square_syst_errors)[c] = DefaultSquaredError(c)
        /\ \A e \in EvaluatedBins :
              e[2] = RSumOver([c \in Channels |-> DefaultErrorTerm(e[1], c)],
                              SelectedChannels)

\* the first channel left out, a later one selected, with different
\* nonzero default errors
C20_Witness ==
    /\ GofReturned("chi2gamma")
    /\ square_syst_errors = None
    /\ 1 \notin SelectedChannels
    /\ \E c \in SelectedChannels :
          /\ DefaultSquaredError(c) # R(0)
          /\ DefaultSquaredError(c) # DefaultSquaredError(1)
          /\ DefaultSquaredError(1) # R(0)
    /\ \A e \in EvaluatedBins : IsFinite(e[2])

----------------------------------------------------------------------------
(* The processor *)

\* a configuration value as a list
ListOf(value) == IF "list" \in DOMAIN value THEN value.list ELSE <<value.str>>

\* the actions in the configured order
ConfiguredOrder ==
    ListOf(config.dsp) \o ListOf(config.transform)
    \o ListOf(config.my_postprocessing) \o ListOf(config.output)

Min(a, b) == IF a <= b THEN a ELSE b

\* C19: started with -n N, the processor stops after N events: for every
\* N >= 0 and every input of M events, exactly min(N, M) events are run
\* through the action chain, in input order, each through all actions in
\* the configured order (dsp, transform, my_postprocessing, output).
C19_StopsAfterNEvents ==
    (loop = "finished" /\ args_n # None) =>
        /\ Len(processed) = Min(args_n[1], Len(input_events))
        /\ \A k \in DOMAIN processed :
              /\ processed[k].id = input_events[k]
              /\ processed[k].passed = ConfiguredOrder

----------------------------------------------------------------------------
(* The window of the grid *)

\* the bins of axis d a returned compute_gof_grid evaluated
EvaluatedAlong(d) ==
    {result.value.lowest_bins[d] + k[d] : k \in DOMAIN result.value.gofs}

\* C21: for a centre in range and grid_size >= 0, compute_gof_grid
\* evaluates, per dimension d, exactly the bins start_d..stop_d with
\* start_d = bin_index(max(centre_d - grid_size/2, minimum_d)) and
\* stop_d = bin_index(min(centre_d + grid_size/2, maximum_d)): the grid has
\* extent stop_d - start_d + 1 >= 1 along d, the lowest-bin offset of d is
\* start_d, and every evaluated bin index lies in 0..n_bins_d - 1, also
\* when the window is clamped at the axis maximum.
C21_GridWindowIsStartToStop ==
    (/\ Returned("compute_gof_grid")
     /\ call.statistic = "chi2gamma"
     /\ AllWithin(call.coordinates)) =>
        /\ result.kind = "ok"
        /\ \A d \in Dims :
              LET start == GridStart(call.coordinates[d], call.grid_size, d)
                  stop == GridStop(call.coordinates[d], call.grid_size, d)
              IN /\ start.kind = "ok" /\ stop.kind = "ok"
                 /\ result.value.lowest_bins[d] = start.value
                 /\ result.value.shape[d] = stop.value - start.value + 1
                 /\ result.value.shape[d] >= 1
                 /\ EvaluatedAlong(d) = start.value..stop.value
                 /\ EvaluatedAlong(d) \subseteq 0..(coordinate_data[d].n_bins - 1)

----------------------------------------------------------------------------
(* The direction matrix of the local search *)

\* C22: in minimize_gof_powell on a map of two dimensions the initial
\* direction matrix handed to the minimizer is diagonal, entry (d, d) being
\* +1 if start_coordinates[d] < 0 and -1 otherwise (-1 for a start
\* coordinate of exactly 0) and every off-diagonal entry 0; on a map of any
\* other dimensionality no direction matrix is supplied.
C22_DirecIsSignedDiagonal ==
    Returned("minimize_gof_powell") =>
        IF Dimensions = 2
        THEN /\ DOMAIN call.direc = 1..2
             /\ \A d, e \in 1..2 :
                   call.direc[d][e] =
                      IF d # e THEN 0
                      ELSE IF RLess(call.coordinates[d], R(0)) THEN 1
                      ELSE 0 - 1
        ELSE call.direc = None

\* a call on a two-dimensional map that starts at a negative coordinate on
\* one axis and at exactly 0 on the other
C22_Witness ==
    /\ Returned("minimize_gof_powell")
    /\ Dimensions = 2
    /\ RLess(call.coordinates[1], R(0))
    /\ call.coordinates[2] = R(0)
    /\ call.direc = <<<<1, 0>>, <<0, 0 - 1>>>>

----------------------------------------------------------------------------
(* The outlier-removal loop of PosRecRobustWeightedMean *)

\* the while loop has made a pass over the peak at hand
LoopHasRun == n_removed # None

\* C23: for an S2 with at least two contributing PMTs the outlier-removal
\* step is repeated until a pass removes no outliers or fewer than
\* min_pmts_left PMTs are left after the removal; when exactly
\* min_pmts_left PMTs remain after a removal, another pass is made.
C23_RepeatsUntilFewerThanMinPmtsLeft ==
    /\ (posrec_pc = "append" /\ LoopHasRun) =>
          \/ n_removed[1] = 0
          \/ Len(pmts) < rwm_config.min_pmts_left
    /\ (posrec_pc = "while" /\ LoopHasRun) =>
          /\ n_removed[1] > 0
          /\ Len(pmts) >= rwm_config.min_pmts_left

\* the PMTs of the configured channels in which a peak has positive area
PmtsHit(peak) ==
    {ch \in rwm_config.pmts : RLess(R(0), peak.area_per_channel[ch])}

\* a pass of the while loop that is followed by another
PassGoesRound == posrec_pc = "outliers" /\ posrec_pc' = "while"

\* transform_event has returned with exactly one position appended to each
\* S2, (nan, nan) where at most one configured PMT has positive area, and
\* none to any other peak
OnePositionPerS2 ==
    \A k \in DOMAIN peaks :
       IF peaks[k].type = "s2"
       THEN /\ Len(peaks[k].reconstructed_positions) = 1
            /\ Cardinality(PmtsHit(peaks[k])) <= 1 =>
                  /\ IsNaN(peaks[k].reconstructed_positions[1].x)
                  /\ IsNaN(peaks[k].reconstructed_positions[1].y)
       ELSE peaks[k].reconstructed_positions = <<>>

PulsesOf(channel_id) ==
    {k \in 1..Len(pulses) : pulses[k].channel = channel_id}

\* the control word a step of the decoding consumes
ControlWordRead == ChannelFakeFile[words_read + 1]

ControlWordConsumed ==
    /\ xed_pc = "words"
    /\ words_read < Len(ChannelFakeFile)
    /\ words_read' > words_read

\* the channel data holds every sample the control word announces
SamplesComplete(control_word) ==
    words_read + 1 + control_word.low <= Len(ChannelFakeFile)

SkipMovesPositionOnly ==
    /\ pulses' = pulses
    /\ sample_position' = sample_position + 2 * ControlWordRead.low
    /\ words_read' = words_read + 1

PulseEmittedAtPosition ==
    /\ Len(pulses') = Len(pulses) + 1
    /\ SubSeq(pulses', 1, Len(pulses)) = pulses
    /\ LET pulse == pulses'[Len(pulses')]
       IN /\ pulse.channel = chunk[channel_at].channel_id
          /\ pulse.left = sample_position
          /\ SamplesComplete(ControlWordRead)
                => 2 * Len(pulse.raw_data) = 2 * ControlWordRead.low
          /\ pulse.raw_data = SubSeq(ChannelFakeFile, words_read + 2,
                                     words_read + 1 + Len(pulse.raw_data))
          /\ sample_position' = sample_position + 2 * Len(pulse.raw_data)
          /\ words_read' = words_read + 1 + Len(pulse.raw_data)

PulsesInOrderAndApart ==
    \A channel_id \in {1, 2} :
        \A k, l \in PulsesOf(channel_id) :
            k < l => /\ pulses[k].left <= pulses[l].left
                     /\ pulses[k].left + 2 * Len(pulses[k].raw_data) <= pulses[l].left

\* C24: the control words of a channel are consumed in order from position 0;
\* one below 2^31 emits no pulse and moves the position on by twice its value,
\* one from 2^31 emits a pulse at the position with the 2 * (w - 2^31) samples
\* that follow it and moves the position on by the samples of the pulse; so the
\* pulses of a channel have non-decreasing left and never overlap.
C24_Zle0PulsesInOrder ==
    /\ [][xed_pc = "channels" /\ xed_pc' = "words"
            => sample_position' = 0 /\ words_read' = 0]_vars
    /\ [][ControlWordConsumed
            => IF ControlWordRead.high = 0
               THEN SkipMovesPositionOnly
               ELSE PulseEmittedAtPosition]_vars
    /\ []PulsesInOrderAndApart

\* two pulses of one channel with a gap between them, the second one after
\* a pulse that has samples
C24_Witness ==
    /\ xed_pc = "returned"
    /\ \E k, l \in PulsesOf(1) :
          /\ k < l
          /\ pulses[k].raw_data # <<>>
          /\ pulses[k].left + 2 * Len(pulses[k].raw_data) < pulses[l].left
    /\ PulsesOf(2) # {}


----------------------------------------------------------------------------
(* The position the grid search returns *)

\* the grid compute_gof_grid hands to the minimum search of the call
GridOfCall ==
    ComputeGofGrid(call.coordinates, call.grid_size, areas_observed,
                   pmt_selection, square_syst_errors, call.statistic)

SomeBinOfWindowNotNaN ==
    /\ GridOfCall.kind = "ok"
    /\ \E k \in DOMAIN GridOfCall.value.gofs : ~IsNaN(GridOfCall.value.gofs[k])

\* the ends of the search window along axis d, clamped to the axis
WindowLow(d) ==
    RMax(RSub(call.coordinates[d], RDiv(call.grid_size, R(2))), coordinate_data[d].minimum)

WindowHigh(d) ==
    RMin(RAdd(call.coordinates[d], RDiv(call.grid_size, R(2))), coordinate_data[d].maximum)

\* bin b of axis d has value x as its centre
IsCentreOfBin(x, b, d) ==
    x = RAdd(coordinate_data[d].minimum,
             RMul(coordinate_data[d].bin_spacing, Frac(2 * b + 1, 2)))

\* bin b of axis d, from its lower edge to its upper edge, meets the window
BinMeetsWindow(b, d) ==
    /\ RLeq(RAdd(coordinate_data[d].minimum, RMul(coordinate_data[d].bin_spacing, R(b))),
            WindowHigh(d))
    /\ RLeq(WindowLow(d),
            RAdd(coordinate_data[d].minimum, RMul(coordinate_data[d].bin_spacing, R(b + 1))))

\* C26: for a centre in range, grid_size >= 0 and an observation that gives
\* at least one bin of the search window a GOF that is not NaN, every
\* coordinate minimize_gof_grid returns is the centre of a bin 0..n_bins-1
\* of its axis, so strictly between the axis minimum and maximum, and that
\* bin lies in the clamped search window around the centre.
C26_GridMinimumIsCentreOfBinInWindow ==
    (/\ Returned("minimize_gof_grid")
     /\ AllWithin(call.coordinates)
     /\ SomeBinOfWindowNotNaN) =>
        /\ result.kind = "ok"
        /\ \A d \in Dims :
              /\ RLess(coordinate_data[d].minimum, result.value.coordinates[d])
              /\ RLess(result.value.coordinates[d], coordinate_data[d].maximum)
              /\ \E b \in 0..(coordinate_data[d].n_bins - 1) :
                    /\ IsCentreOfBin(result.value.coordinates[d], b, d)
                    /\ BinMeetsWindow(b, d)
                    /\ b >= GridStart(call.coordinates[d], call.grid_size, d).value
                    /\ b <= GridStop(call.coordinates[d], call.grid_size, d).value

\* a minimum found in a window that starts above bin 0 on one axis and is
\* clamped at the maximum of an axis
C26_Witness ==
    /\ Returned("minimize_gof_grid")
    /\ result.kind = "ok"
    /\ SomeBinOfWindowNotNaN
    /\ \E d \in Dims : GridStart(call.coordinates[d], call.grid_size, d).value > 0
    /\ \E d \in Dims :
          RLess(coordinate_data[d].maximum,
                RAdd(call.coordinates[d], RDiv(call.grid_size, R(2))))
    /\ \E k \in DOMAIN GridOfCall.value.gofs : IsNaN(GridOfCall.value.gofs[k])


----------------------------------------------------------------------------
(* Bins without expected response *)

\* the expected response of a bin summed over the selected channels
ResponseOverSelected(bin) ==
    RSumOver([c \in Channels |-> data[bin][c]], SelectedChannels)

\* expected_pattern at the centre of a bin raises its error
ExpectedPatternRaisesAt(bin) ==
    ExpectedPattern([d \in Dims |-> GetBinCenter(bin[d], d)]).kind = OutOfRange

\* a chi2gamma statistic returned for bins of the map
GofReturnedForBins ==
    /\ GofReturned("chi2gamma")
    /\ \A e \in EvaluatedBins : e[1] \in DOMAIN data

\* the chi2gamma sum of a bin over the selected channels
Chi2GammaSum(bin) ==
    RSumOver([c \in Channels |-> GammaTerm(bin, c, MinWith1(areas_observed[c]))],
             SelectedChannels)

\* a call at bins of the map with the chi2gamma statistic returns
NoErrorAtBinsOfMap ==
    (/\ pc = "returned"
     /\ call.op \in {"compute_gof", "compute_gof_grid"}
     /\ call.statistic = "chi2gamma"
     /\ AllWithin(call.coordinates)
     /\ call.op = "compute_gof" => GetBinIndices(call.coordinates).value \in DOMAIN data)
        => result.kind = "ok"

\* C28 as claimed: compute_gof, and each entry of compute_gof_grid, at a bin
\* of the map whose expected response summed over the selected channels is
\* zero raises no error, unlike expected_pattern at the same bin, and gives
\* not-a-number for that bin; the other bins of the grid keep their values.
C28_DeadBinGivesNaN ==
    /\ NoErrorAtBinsOfMap
    /\ GofReturnedForBins =>
          \A e \in EvaluatedBins :
              IF ResponseOverSelected(e[1]) = R(0)
              THEN IsNaN(e[2]) /\ ExpectedPatternRaisesAt(e[1])
              ELSE IsFinite(e[2]) /\ e[2] = Chi2GammaSum(e[1])

\* C28 as amended: such a bin raises no error; it gives not-a-number when a
\* channel is selected and 0 when no channel is selected (the sums are
\* empty); expected_pattern raises at the bin exactly when the response of
\* all its channels sums to zero; the other bins of the grid keep their
\* values.
C28_DeadBinGivesNaNWhenChannelsSelected ==
    /\ NoErrorAtBinsOfMap
    /\ GofReturnedForBins =>
          \A e \in EvaluatedBins :
              /\ ExpectedPatternRaisesAt(e[1]) <=> RSumSeq(data[e[1]]) = R(0)
              /\ IF ResponseOverSelected(e[1]) = R(0)
                 THEN IF SelectedChannels = {} THEN e[2] = R(0) ELSE IsNaN(e[2])
                 ELSE IsFinite(e[2]) /\ e[2] = Chi2GammaSum(e[1])

\* a grid of a dead bin and a live bin, with channels selected
C28_Witness ==
    /\ GofReturnedForBins
    /\ call.op = "compute_gof_grid"
    /\ SelectedChannels # {}
    /\ \E e \in EvaluatedBins : ResponseOverSelected(e[1]) = R(0) /\ IsNaN(e[2])
    /\ \E e \in EvaluatedBins : ResponseOverSelected(e[1]) # R(0) /\ IsFinite(e[2])


----------------------------------------------------------------------------
(* Signals that yield nothing in the waveform simulator *)

\* C27: simulate_single_event returns an event for every list of
\* instructions, also when the S1 or S2 asked for yields no photons or no
\* electrons: such a signal leaves no hit pattern, no after-pulses and no
\* truth peak, and the event is produced all the same, with an empty hit
\* pattern if nothing else contributed; the call does not fail.
C27_EventForEveryInstructionList ==
    /\ fax_pc # "raised"
    /\ fax_pc = "returned" =>
          /\ simulated.kind = "ok"
          /\ NoHitpattern \notin {hitpatterns[k] : k \in DOMAIN hitpatterns}
          /\ Len(truth_peaks) =
                Cardinality({k \in DOMAIN hitpatterns : hitpatterns[k].signal \in {"s1", "s2"}})
          /\ hitpatterns = <<>> => simulated.value.hitpattern = NoHitpattern

====
